---------------------------- MODULE Spec2Model ----------------------------
(***************************************************************************)
(* A model of the daily_advice service: the SQLite-backed domain query     *)
(* clients (almanac, holiday, solar terms), the LLM aggregators            *)
(* (GLM4Query.get_daily_advice, NewsIntegrationAPI) and the Feishu         *)
(* delivery sink with its access-token lifecycle.                          *)
(*                                                                         *)
(* Conventions.  A Python dict is a record and None, where a dict is       *)
(* expected, is the record None.  A date string "YYYY-MM-DD" is the tuple  *)
(* <<y, m, d>> and a display date (month, day) is the tuple <<m, d>>.  An  *)
(* absent string argument (None or empty, both falsy) is NoDate, NoName or *)
(* NoYear.  A JSON text stored in a raw_data column is [json |-> v].       *)
(* Upstream replies are inputs drawn from small sets; their JSON bodies    *)
(* follow the providers' schemas (an object with error_code, reason,       *)
(* result).  Chinese string literals of the source are written in ASCII.   *)
(* The local SQLite files are taken to be readable and writable, except    *)
(* where a call draws db_ok: there a failing database is an input.         *)
(***************************************************************************)
EXTENDS Integers, Sequences, FiniteSets, TLC

VARIABLES
    almanac_cache,      \* table almanac_cache: set of rows [date, raw_data]
    holiday_cache,      \* table holiday_cache: set of rows [date, raw_data]
    solar_terms_cache,  \* table solar_terms_cache: rows in rowid order
    access_token,       \* FeishuBot.access_token
    token_expires_at,   \* FeishuBot.token_expires_at
    clock,              \* wall clock, seconds (datetime.now)
    news_data,          \* what fetch_all_news returned to its caller
    pc,                 \* where the main thread is in app.py / init_scheduler
    running,            \* scheduler.start() has been called
    jobs,               \* the scheduler's job store: records [id, func]
    refresh,            \* the startup refresh thread: [started, finished]
    env,                \* the process environment (.env and os.environ)
    max_sent_id,        \* crypto_news_api.max_sent_id
    daily_cache,        \* solar_terms_api.cache['daily_advice']
    workers,            \* request threads inside AlmanacQuery.query_almanac
    almanac_explanation_cache,  \* rows [field_name, field_value, explanation]
    seasonal_food_cache,        \* rows [term, province, vegatables, advice]
    date_queue,         \* almanac_query.date_queue: the dates still to do
    explainers,         \* threads at work on explanations, by start order
    returned_ids,       \* ids of the news get_new_crypto_news has returned
    crypto_calls,       \* threads inside get_new_crypto_news, by caller
    wall_date,          \* the date datetime.now() falls on
    advice_calls,       \* threads inside get_cached_daily_advice
    last                \* the last completed call: what it did and returned

vars == <<almanac_cache, holiday_cache, solar_terms_cache,
          access_token, token_expires_at, clock, news_data,
          pc, running, jobs, refresh, env, max_sent_id, daily_cache,
          workers, almanac_explanation_cache, seasonal_food_cache,
          date_queue, explainers, returned_ids, crypto_calls, wall_date,
          advice_calls, last>>

cacheVars == <<almanac_cache, holiday_cache, solar_terms_cache>>
botVars == <<access_token, token_expires_at, clock>>
schedVars == <<pc, running, jobs, refresh, env, max_sent_id, daily_cache,
               workers>>
sideTables == <<almanac_explanation_cache, seasonal_food_cache>>
batchVars == <<date_queue, explainers>>
adviceVars == <<wall_date, advice_calls>>
callVars == <<returned_ids, crypto_calls, adviceVars>>
otherVars == <<botVars, news_data, schedVars, sideTables, batchVars, callVars>>

-----------------------------------------------------------------------------
(* Python values *)

None == [py_none |-> TRUE]

\* json.dumps / json.loads of a value that itself came from JSON.
json_dumps(v) == [json |-> v]

json_loads(s) == s.json

-----------------------------------------------------------------------------
(* Dates *)

Dates == {<<2024, 2, 5>>, <<2024, 2, 6>>}

\* falsy arguments: no date, no name, no year
NoDate == <<>>

NoName == ""

NoYear == 0

\* datetime.strptime(s, '%Y-%m-%d') succeeds
IsIsoDate(s) == Len(s) = 3

\* "M月D日" splits into month and day
IsDisplayDate(s) == Len(s) = 2

\* SolarTermsQuery.convert_date_format: "2月3日", year -> "YYYY-02-03";
\* on a parse failure the input is returned unchanged.
convert_date_format(date_str, year) ==
    IF IsDisplayDate(date_str)
    THEN <<year, date_str[1], date_str[2]>>
    ELSE date_str

\* SolarTermsQuery.format_date_for_display: "YYYY-02-03" -> "2月3日";
\* on a parse failure the input is returned unchanged.
format_date_for_display(date_str) ==
    IF IsIsoDate(date_str)
    THEN <<date_str[2], date_str[3]>>
    ELSE date_str

-----------------------------------------------------------------------------
(* Upstream HTTP replies (inputs) *)

\* requests.get(...) or response.json() raised
Raised == [raises |-> TRUE]

Replied(body) == [raises |-> FALSE, json |-> body]

FailureBody == [error_code |-> 10012, reason |-> "request exceeds the limit"]

AlmanacResults == {"almanacA", "almanacB"}

AlmanacReplies ==
    {Raised, Replied(FailureBody)}
    \cup {Replied([error_code |-> 0, reason |-> "successed", result |-> p]) :
            p \in AlmanacResults}

HolidayResults == {[status |-> "1", desc |-> "holidayA"],
                   [status |-> "0", desc |-> "holidayB"]}

HolidayReplies ==
    {Raised, Replied(FailureBody)}
    \cup {Replied([error_code |-> 0, reason |-> "success", result |-> p]) :
            p \in HolidayResults}

Years == {2024}

TermNames == {"lichun", "yushui"}

TermDate(name) == IF name = "lichun" THEN <<2, 4>> ELSE <<2, 19>>

SolarVersions == {"desA", "desB"}

\* one item of the solar-terms API's result list
SolarItem(year, name, ver) ==
    [pub_year |-> year, name |-> name, pub_date |-> TermDate(name), des |-> ver]

\* the provider's list for (year, name); an empty name asks for the whole year
SolarResult(year, name, ver) ==
    IF name = NoName
    THEN <<SolarItem(year, "lichun", ver), SolarItem(year, "yushui", ver)>>
    ELSE <<SolarItem(year, name, ver)>>

SolarOutcomes == {"raises", "failure"} \cup SolarVersions

SolarReply(year, name, outcome) ==
    IF outcome = "raises" THEN Raised
    ELSE IF outcome = "failure" THEN Replied(FailureBody)
    ELSE Replied([error_code |-> 0, reason |-> "success",
                  result |-> SolarResult(year, name, outcome)])

RequestError == [error_code |-> -1, reason |-> "request error"]

\* the inputs a call can consume: all of S when it reads one, else a fixed one
Inputs(reads, S) == IF reads THEN S ELSE {CHOOSE x \in S : TRUE}

\* the reply a call consumed: none when it made no request
Consumed(http, reply) == IF http = 0 THEN None ELSE reply

-----------------------------------------------------------------------------
(* AlmanacQuery *)

\* Faulty variant: the cached blob wrapped in a fresh envelope, as the
\* holiday client does.
AlmanacQuery_get_from_cache_Wrapped(tbl, date) ==
    LET rows == {r \in tbl : r.date = date}
    IN IF rows # {}
       THEN [error_code |-> 0, reason |-> "success (from cache)",
             result |-> json_loads((CHOOSE r \in rows : TRUE).raw_data).result]
       ELSE None

AlmanacQuery_get_from_cache(tbl, date) ==
    LET rows == {r \in tbl : r.date = date}
    IN IF rows # {} THEN json_loads((CHOOSE r \in rows : TRUE).raw_data)
       ELSE None

\* Faulty variant: a plain INSERT into a table without the key constraint.
AlmanacQuery_save_to_cache_InsertOnly(tbl, date, data) ==
    tbl \cup {[date |-> date, raw_data |-> json_dumps(data)]}

\* INSERT OR REPLACE on the primary key date
AlmanacQuery_save_to_cache(tbl, date, data) ==
    {r \in tbl : r.date # date}
        \cup {[date |-> date, raw_data |-> json_dumps(data)]}

\* Faulty variant: the cache is not consulted before the request.
AlmanacQuery_query_almanac_NoCacheCheck(tbl, date, reply) ==
    IF reply.raises
    THEN [cache |-> tbl, ret |-> RequestError, http |-> 1]
    ELSE IF reply.json.error_code = 0
    THEN [cache |-> {r \in tbl : r.date # date}
                        \cup {[date |-> date, raw_data |-> json_dumps(reply.json)]},
          ret |-> reply.json, http |-> 1]
    ELSE [cache |-> tbl, ret |-> reply.json, http |-> 1]

\* [cache, ret, http]: the table afterwards, the returned dict and the number
\* of outbound HTTP requests made
AlmanacQuery_query_almanac(tbl, date, reply) ==
    LET cached_data == AlmanacQuery_get_from_cache(tbl, date)
    IN IF cached_data # None
       THEN [cache |-> tbl, ret |-> cached_data, http |-> 0]
       ELSE IF reply.raises
       THEN [cache |-> tbl, ret |-> RequestError, http |-> 1]
       ELSE IF reply.json.error_code = 0
       THEN [cache |-> AlmanacQuery_save_to_cache(tbl, date, reply.json),
             ret |-> reply.json, http |-> 1]
       ELSE [cache |-> tbl, ret |-> reply.json, http |-> 1]

query_almanac ==
    /\ \E query_date \in Dates \cup {NoDate} :
       \E today \in Inputs(query_date = NoDate, Dates) :
       \E reply \in Inputs(
               {r \in almanac_cache :
                   r.date = IF query_date = NoDate THEN today ELSE query_date} = {},
               AlmanacReplies) :
           LET date == IF query_date = NoDate THEN today ELSE query_date
               r == AlmanacQuery_query_almanac(almanac_cache, date, reply)
           IN /\ almanac_cache' = r.cache
              /\ last' = [op |-> "query_almanac", key |-> date,
                          http |-> r.http, up |-> Consumed(r.http, reply),
                          ret |-> r.ret]
              /\ UNCHANGED <<holiday_cache, solar_terms_cache, otherVars>>

-----------------------------------------------------------------------------
(* HolidayQuery *)

HolidayQuery_get_from_cache(tbl, date) ==
    LET rows == {r \in tbl : r.date = date}
    IN IF rows # {}
       THEN [error_code |-> 0, reason |-> "success (from cache)",
             result |-> json_loads((CHOOSE r \in rows : TRUE).raw_data)]
       ELSE None

\* INSERT OR REPLACE on the primary key date
HolidayQuery_save_to_cache(tbl, date, data) ==
    {r \in tbl : r.date # date}
        \cup {[date |-> date, raw_data |-> json_dumps(data)]}

\* Faulty variant: the reply is cached before its error_code is looked at.
HolidayQuery_query_today_SaveFirst(tbl, current_date, reply) ==
    LET rows == {r \in tbl : r.date = current_date}
    IN IF rows # {}
       THEN [cache |-> tbl,
             ret |-> [error_code |-> 0, reason |-> "success (from cache)",
                      result |-> json_loads((CHOOSE r \in rows : TRUE).raw_data)],
             http |-> 0]
       ELSE IF reply.raises
       THEN [cache |-> tbl, ret |-> RequestError, http |-> 1]
       ELSE [cache |-> tbl \cup {[date |-> current_date,
                                  raw_data |-> json_dumps(reply.json)]},
             ret |-> reply.json, http |-> 1]

HolidayQuery_query_today(tbl, current_date, reply) ==
    LET cached_data == HolidayQuery_get_from_cache(tbl, current_date)
    IN IF cached_data # None
       THEN [cache |-> tbl, ret |-> cached_data, http |-> 0]
       ELSE IF reply.raises
       THEN [cache |-> tbl, ret |-> RequestError, http |-> 1]
       ELSE IF reply.json.error_code = 0
       THEN [cache |-> HolidayQuery_save_to_cache(tbl, current_date,
                                                  reply.json.result),
             ret |-> reply.json, http |-> 1]
       ELSE [cache |-> tbl, ret |-> reply.json, http |-> 1]

query_today ==
    /\ \E current_date \in Dates :
       \E reply \in Inputs({r \in holiday_cache : r.date = current_date} = {},
                           HolidayReplies) :
           LET r == HolidayQuery_query_today(holiday_cache, current_date, reply)
           IN /\ holiday_cache' = r.cache
              /\ last' = [op |-> "query_today", key |-> current_date,
                          http |-> r.http, up |-> Consumed(r.http, reply),
                          ret |-> r.ret]
              /\ UNCHANGED <<almanac_cache, solar_terms_cache, otherVars>>

-----------------------------------------------------------------------------
(* SolarTermsQuery *)

\* the rows of the table that a (year, name) lookup selects, in table order
SolarRows(tbl, year, name) ==
    SelectSeq(tbl, LAMBDA r : r.pub_year = year
                              /\ (name # NoName => r.name = name))

SolarTermsQuery_get_from_cache(tbl, year, name) ==
    LET results == SolarRows(tbl, year, name)
    IN IF results # <<>>
       THEN [error_code |-> 0, reason |-> "success (from cache)",
             result |-> [i \in 1..Len(results) |->
                            json_loads(results[i].raw_data)]]
       ELSE None

\* Faulty variant: a plain INSERT, which the UNIQUE constraint rejects when
\* the key is already present (the error is logged, the old row stays).
SolarTermsQuery_save_to_cache_InsertOnly(tbl, data) ==
    LET pub_date == convert_date_format(data.pub_date, data.pub_year)
        row == [pub_year |-> data.pub_year, name |-> data.name,
                pub_date |-> pub_date,
                raw_data |-> json_dumps([data EXCEPT !.pub_date = pub_date])]
    IN IF \E i \in 1..Len(tbl) : tbl[i].pub_year = data.pub_year
                                  /\ tbl[i].name = data.name
       THEN tbl
       ELSE Append(tbl, row)

\* INSERT OR REPLACE on UNIQUE(pub_year, name); pub_date is stored, and
\* written into raw_data, in the converted format
SolarTermsQuery_save_to_cache(tbl, data) ==
    LET pub_date == convert_date_format(data.pub_date, data.pub_year)
        row == [pub_year |-> data.pub_year, name |-> data.name,
                pub_date |-> pub_date,
                raw_data |-> json_dumps([data EXCEPT !.pub_date = pub_date])]
    IN Append(SelectSeq(tbl, LAMBDA r : ~(r.pub_year = data.pub_year
                                          /\ r.name = data.name)),
              row)

RECURSIVE SaveAll(_, _)
\* for item in result.get('result', []): self.save_to_cache(item)
SaveAll(tbl, items) ==
    IF items = <<>> THEN tbl
    ELSE SaveAll(SolarTermsQuery_save_to_cache(tbl, Head(items)), Tail(items))

SolarTermsQuery_query(tbl, year, name, reply) ==
    LET cached_data == SolarTermsQuery_get_from_cache(tbl, year, name)
    IN IF cached_data # None
       THEN [cache |-> tbl, ret |-> cached_data, http |-> 0]
       ELSE IF reply.raises
       THEN [cache |-> tbl, ret |-> RequestError, http |-> 1]
       ELSE IF reply.json.error_code = 0
       THEN [cache |-> SaveAll(tbl, reply.json.result),
             ret |-> reply.json, http |-> 1]
       ELSE [cache |-> tbl, ret |-> reply.json, http |-> 1]

query ==
    /\ \E year_arg \in Years \cup {NoYear}, name \in TermNames \cup {NoName} :
       \E this_year \in Inputs(year_arg = NoYear, Years) :
       \E outcome \in Inputs(
               SolarRows(solar_terms_cache,
                         IF year_arg = NoYear THEN this_year ELSE year_arg,
                         name) = <<>>,
               SolarOutcomes) :
           LET year == IF year_arg = NoYear THEN this_year ELSE year_arg
               reply == SolarReply(year, name, outcome)
               r == SolarTermsQuery_query(solar_terms_cache, year, name, reply)
           IN /\ solar_terms_cache' = r.cache
              /\ last' = [op |-> "query", key |-> <<year, name>>,
                          http |-> r.http, up |-> Consumed(r.http, reply),
                          ret |-> r.ret]
              /\ UNCHANGED <<almanac_cache, holiday_cache, otherVars>>

-----------------------------------------------------------------------------
(* SolarTermsQuery.get_current_solar_term *)

\* a <= b for dates <<y, m, d>>
DateLE(a, b) ==
    \/ a[1] < b[1]
    \/ a[1] = b[1] /\ a[2] < b[2]
    \/ a[1] = b[1] /\ a[2] = b[2] /\ a[3] <= b[3]

IsLeap(y) == (y % 4 = 0 /\ y % 100 # 0) \/ y % 400 = 0

DaysBeforeMonth == <<0, 31, 59, 90, 120, 151, 181, 212, 243, 273, 304, 334>>

\* date.toordinal(): days since 0001-01-01
Ordinal(dt) ==
    LET y == dt[1] - 1
    IN 365 * y + (y \div 4) - (y \div 100) + (y \div 400)
       + DaysBeforeMonth[dt[2]]
       + (IF dt[2] > 2 /\ IsLeap(dt[1]) THEN 1 ELSE 0)
       + dt[3]

RECURSIVE SortByPubDate(_)
\* ORDER BY pub_date
SortByPubDate(rows) ==
    IF rows = <<>> THEN <<>>
    ELSE LET i == CHOOSE i \in 1..Len(rows) :
                    \A j \in 1..Len(rows) :
                        \/ rows[i].pub_date # rows[j].pub_date
                              /\ DateLE(rows[i].pub_date, rows[j].pub_date)
                        \/ rows[i].pub_date = rows[j].pub_date /\ i <= j
         IN <<rows[i]>> \o SortByPubDate(
                [k \in 1..(Len(rows) - 1) |->
                    IF k < i THEN rows[k] ELSE rows[k + 1]])

\* json.loads(raw_data) with pub_date in display format
DisplayTerm(row) ==
    LET raw_data == json_loads(row.raw_data)
    IN [raw_data EXCEPT !.pub_date = format_date_for_display(raw_data.pub_date)]

RECURSIVE TermLoop(_, _, _, _, _)
\* the for loop over the year's terms from index i (0-based in the source,
\* 1-based here): [current_term, next_term]
TermLoop(solar_terms, query_date, i, current_term, next_term) ==
    IF i > Len(solar_terms)
    THEN [current_term |-> current_term, next_term |-> next_term]
    ELSE IF DateLE(solar_terms[i].pub_date, query_date)
    THEN TermLoop(solar_terms, query_date, i + 1,
                  DisplayTerm(solar_terms[i]),
                  IF i < Len(solar_terms)
                  THEN DisplayTerm(solar_terms[i + 1])
                  ELSE next_term)
    ELSE IF current_term = None
    THEN [current_term |-> IF i > 1 THEN DisplayTerm(solar_terms[i - 1])
                           ELSE current_term,
          next_term |-> DisplayTerm(solar_terms[i])]
    ELSE [current_term |-> current_term, next_term |-> next_term]

\* [cache, ret, http]
SolarTermsQuery_get_current_solar_term(tbl, query_date, outcome) ==
    LET query_year == query_date[1]
        count == Len(SolarRows(tbl, query_year, NoName))
        fetched == IF count = 0
                   THEN SolarTermsQuery_query(tbl, query_year, NoName,
                            SolarReply(query_year, NoName, outcome))
                   ELSE [cache |-> tbl, ret |-> None, http |-> 0]
    IN IF count = 0 /\ fetched.ret.error_code # 0
       THEN [cache |-> fetched.cache, http |-> fetched.http,
             ret |-> [error |-> "failed to get solar terms",
                      error_code |-> fetched.ret.error_code,
                      reason |-> fetched.ret.reason]]
       ELSE LET solar_terms ==
                    SortByPubDate(SolarRows(fetched.cache, query_year, NoName))
            IN IF \E i \in 1..Len(solar_terms) :
                      ~IsIsoDate(solar_terms[i].pub_date)
               THEN [cache |-> fetched.cache, http |-> fetched.http,
                     ret |-> [error |-> "failed to get solar term",
                              error_code |-> -1]]
               ELSE LET t == TermLoop(solar_terms, query_date, 1, None, None)
                        days_to_next ==
                            IF t.next_term # None
                            THEN Ordinal(convert_date_format(
                                     t.next_term.pub_date, query_year))
                                 - Ordinal(query_date)
                            ELSE -1
                    IN [cache |-> fetched.cache, http |-> fetched.http,
                        ret |-> [error_code |-> 0,
                                 query_date |-> query_date,
                                 current_term |-> t.current_term,
                                 next_term |-> t.next_term,
                                 days_to_next |->
                                     IF t.next_term # None
                                     THEN [days |-> days_to_next]
                                     ELSE None]]

-----------------------------------------------------------------------------
(* The LLM client (inputs) and json.loads of its reply *)

AdviceKeys == {"date", "nongli", "food", "yi", "ji", "desc"}

NewsKeys == {"summary", "news_list", "positive_count", "negative_count",
             "processed_time"}

\* reply texts: not JSON; the daily-advice schema; the news schema; a JSON
\* object with neither schema's keys; a JSON number
LLMContents == {"not json", "advice json", "news json", "other json", "7"}

\* json.loads(content): [ok, value]; ok = FALSE is json.JSONDecodeError
JsonParse(content) ==
    CASE content = "advice json" ->
            [ok |-> TRUE, value |-> [type |-> "object", keys |-> AdviceKeys]]
      [] content = "news json" ->
            [ok |-> TRUE, value |-> [type |-> "object", keys |-> NewsKeys]]
      [] content = "other json" ->
            [ok |-> TRUE, value |-> [type |-> "object", keys |-> {"answer"}]]
      [] content = "7" ->
            [ok |-> TRUE, value |-> [type |-> "number", keys |-> {}]]
      [] OTHER -> [ok |-> FALSE]

\* a Python str held in a dict
Str(c) == [str |-> c]

\* the client raised; the response has no choices; the response's first
\* choice carries a text
LLMReplies ==
    {[kind |-> "raises"], [kind |-> "no_choices"]}
    \cup {[kind |-> "content", content |-> c] : c \in LLMContents}

\* GLM4Query.query: the envelope around the client's response
GLM4Query_query(llm) ==
    IF llm.kind = "raises"
    THEN [error_code |-> -1, message |-> "request error", data |-> None]
    ELSE [error_code |-> 0, message |-> "success", data |-> llm]

-----------------------------------------------------------------------------
(* GLM4Query.get_daily_advice *)

\* Faulty variant: either base envelope succeeding is enough to go on.
AdviceBaseOk_Either(solar_result, almanac_result) ==
    solar_result.error_code = 0 \/ almanac_result.error_code = 0

\* the gate on the gathered base data
AdviceBaseOk(solar_result, almanac_result) ==
    solar_result.error_code = 0 /\ almanac_result.error_code = 0

\* Faulty variant: an unparseable reply is reported without the raw text.
AdviceParse_DropsRaw(content) ==
    IF JsonParse(content).ok
    THEN [error_code |-> 0, message |-> "success",
          data |-> JsonParse(content).value]
    ELSE [error_code |-> -1, message |-> "failed to parse the AI response",
          data |-> None]

\* the try / except json.JSONDecodeError around json.loads(content)
AdviceParse(content) ==
    IF JsonParse(content).ok
    THEN [error_code |-> 0, message |-> "success",
          data |-> JsonParse(content).value]
    ELSE [error_code |-> -1, message |-> "failed to parse the AI response",
          data |-> Str(content)]

\* [ret, llm]: the envelope and the number of LLM requests
GLM4Query_compose(solar_result, almanac_result, llm) ==
    IF AdviceBaseOk(solar_result, almanac_result)
    THEN LET response == GLM4Query_query(llm)
         IN IF response.error_code = 0
            THEN IF llm.kind = "no_choices"
                 THEN [ret |-> [error_code |-> -1,
                                message |-> "failed to generate advice",
                                data |-> None],
                       llm |-> 1]
                 ELSE [ret |-> AdviceParse(llm.content), llm |-> 1]
            ELSE [ret |-> response, llm |-> 1]
    ELSE [ret |-> [error_code |-> -1, message |-> "failed to get base data",
                   data |-> None],
          llm |-> 0]

\* The weather client (LifeSuggestionQuery.get_all_info) keeps no state and
\* cannot fail the call; its text only enters the prompt.
get_daily_advice ==
    /\ \E date_str \in Dates :
       \E solar \in Inputs(SolarRows(solar_terms_cache, date_str[1], NoName) = <<>>,
                           SolarOutcomes) :
       \E almanac_reply \in Inputs({r \in almanac_cache : r.date = date_str} = {},
                                   AlmanacReplies) :
       \E holiday_reply \in Inputs({r \in holiday_cache : r.date = date_str} = {},
                                   HolidayReplies) :
       \E s \in {SolarTermsQuery_get_current_solar_term(
                      solar_terms_cache, date_str, solar)} :
       \E a \in {AlmanacQuery_query_almanac(almanac_cache, date_str,
                                            almanac_reply)} :
       \E h \in {HolidayQuery_query_today(holiday_cache, date_str,
                                          holiday_reply)} :
       \E llm \in Inputs(AdviceBaseOk(s.ret, a.ret), LLMReplies) :
       \E c \in {GLM4Query_compose(s.ret, a.ret, llm)} :
                  /\ solar_terms_cache' = s.cache
                  /\ almanac_cache' = a.cache
                  /\ holiday_cache' = h.cache
                  /\ last' = [op |-> "get_daily_advice", key |-> date_str,
                              solar_result |-> s.ret, almanac_result |-> a.ret,
                              holiday_result |-> h.ret,
                              llm |-> c.llm, llm_up |-> Consumed(c.llm, llm),
                              ret |-> c.ret]
                  /\ UNCHANGED otherVars

-----------------------------------------------------------------------------
(* NewsIntegrationAPI *)

\* self.news_sources, in the dict's order
news_sources == <<"jin10", "cls_telegraph", "wallstreetcn_hot">>

NewsItem == [title |-> "t", pubDate |-> "p", url |-> "u", id |-> "i"]

\* what one source's request can give: a transport or HTTP error
\* (requests.RequestException), a body that is not JSON, a JSON body that
\* is not an object, or an object with a status and items
NewsReplies ==
    {[kind |-> "request_error"], [kind |-> "json_error"],
     [kind |-> "not_object"],
     [kind |-> "object", status |-> "error", items |-> <<>>],
     [kind |-> "object", status |-> "success", items |-> <<>>],
     [kind |-> "object", status |-> "success", items |-> <<NewsItem>>],
     [kind |-> "object", status |-> "cache", items |-> <<NewsItem>>]}

SourceFailure(source_name, message) ==
    [error_code |-> -1, message |-> message, source |-> source_name,
     data |-> <<>>]

\* [raised, ret]: data.get on a body that is no dict raises AttributeError,
\* which neither except clause catches
NewsIntegrationAPI_fetch_news_from_source(source_name, reply) ==
    CASE reply.kind = "request_error" ->
            [raised |-> FALSE,
             ret |-> SourceFailure(source_name, "request failed")]
      [] reply.kind = "json_error" ->
            [raised |-> FALSE,
             ret |-> SourceFailure(source_name, "JSON parse failed")]
      [] reply.kind = "not_object" ->
            [raised |-> TRUE, ret |-> None]
      [] OTHER ->
            IF reply.status \in {"success", "cache"}
            THEN [raised |-> FALSE,
                  ret |-> [error_code |-> 0,
                           message |-> IF reply.status = "cache"
                                       THEN "success (status: cache)"
                                       ELSE "success (status: success)",
                           source |-> source_name, data |-> reply.items]]
            ELSE [raised |-> FALSE,
                  ret |-> SourceFailure(source_name, "API returned an error status")]

\* Faulty variant: the try stands around the loop instead of inside it, so
\* the first exception ends the loop and the later sources are never fetched.
NewsIntegrationAPI_fetch_all_news_StopsAtException(replies) ==
    LET raises(i) == NewsIntegrationAPI_fetch_news_from_source(
                         news_sources[i], replies[i]).raised
        n == IF \E i \in 1..Len(news_sources) : raises(i)
             THEN (CHOOSE i \in 1..Len(news_sources) :
                      raises(i) /\ \A k \in 1..(i - 1) : ~raises(k)) - 1
             ELSE Len(news_sources)
    IN [i \in 1..n |->
           NewsIntegrationAPI_fetch_news_from_source(news_sources[i],
                                                     replies[i]).ret]

\* one envelope per configured source; an exception from a source's fetch
\* becomes that source's failure envelope
NewsIntegrationAPI_fetch_all_news(replies) ==
    [i \in 1..Len(news_sources) |->
        LET result == NewsIntegrationAPI_fetch_news_from_source(
                          news_sources[i], replies[i])
        IN IF result.raised
           THEN SourceFailure(news_sources[i], "fetch failed")
           ELSE result.ret]

RECURSIVE CollectItems(_, _)
\* news_items: the items of the sources whose envelope has error_code 0,
\* each tagged with its source
CollectItems(all_news, i) ==
    IF i > Len(all_news) THEN <<>>
    ELSE (IF all_news[i].error_code = 0
          THEN [k \in 1..Len(all_news[i].data) |->
                   [source |-> news_sources[i],
                    title |-> all_news[i].data[k].title,
                    pubDate |-> all_news[i].data[k].pubDate,
                    url |-> all_news[i].data[k].url,
                    id |-> all_news[i].data[k].id]]
          ELSE <<>>)
         \o CollectItems(all_news, i + 1)

\* json.loads(content) and the logging of news_list: 'news_list' in a number
\* raises TypeError, which the outer except turns into a failure
NewsParse(content, raw) ==
    IF ~JsonParse(content).ok
    THEN [error_code |-> -1, message |-> "failed to parse the AI response",
          data |-> Str(content), raw_data |-> raw]
    ELSE IF JsonParse(content).value.type = "number"
    THEN [error_code |-> -1, message |-> "integration failed",
          data |-> None, raw_data |-> raw]
    ELSE [error_code |-> 0, message |-> "success",
          data |-> JsonParse(content).value, raw_data |-> raw]

\* Faulty variant: the check for an empty news_items is missing, so the LLM is
\* asked to integrate nothing.
NewsIntegrationAPI_integrate_news_with_glm4_NoEmptyCheck(all_news, llm) ==
    LET response == GLM4Query_query(llm)
    IN IF response.error_code = 0
       THEN IF llm.kind = "no_choices"
            THEN [ret |-> [error_code |-> -1,
                           message |-> "integration failed",
                           data |-> None, raw_data |-> all_news],
                  llm |-> 1]
            ELSE [ret |-> NewsParse(llm.content, all_news), llm |-> 1]
       ELSE [ret |-> [error_code |-> -1,
                      message |-> "GLM4 processing failed",
                      data |-> None, raw_data |-> all_news],
             llm |-> 1]

\* [ret, llm]
NewsIntegrationAPI_integrate_news_with_glm4(all_news, llm) ==
    IF CollectItems(all_news, 1) = <<>>
    THEN [ret |-> [error_code |-> -1, message |-> "no usable news data",
                   data |-> <<>>],
          llm |-> 0]
    ELSE LET response == GLM4Query_query(llm)
         IN IF response.error_code = 0
            THEN IF llm.kind = "no_choices"
                 THEN [ret |-> [error_code |-> -1,
                                message |-> "integration failed",
                                data |-> None, raw_data |-> all_news],
                       llm |-> 1]
                 ELSE [ret |-> NewsParse(llm.content, all_news), llm |-> 1]
            ELSE [ret |-> [error_code |-> -1,
                           message |-> "GLM4 processing failed",
                           data |-> None, raw_data |-> all_news],
                  llm |-> 1]

fetch_all_news ==
    /\ \E replies \in [1..Len(news_sources) -> NewsReplies] :
           /\ news_data' = NewsIntegrationAPI_fetch_all_news(replies)
           /\ last' = [op |-> "fetch_all_news", up |-> replies,
                       ret |-> NewsIntegrationAPI_fetch_all_news(replies)]
           /\ UNCHANGED <<cacheVars, botVars, schedVars, sideTables, batchVars, callVars>>

\* called, as by every caller in the source, with what fetch_all_news returned
integrate_news_with_glm4 ==
    /\ news_data # None
    /\ \E llm \in Inputs(CollectItems(news_data, 1) # <<>>, LLMReplies) :
       \E c \in {NewsIntegrationAPI_integrate_news_with_glm4(news_data, llm)} :
        /\ last' = [op |-> "integrate_news_with_glm4", news |-> news_data,
                    llm |-> c.llm, llm_up |-> Consumed(c.llm, llm),
                    ret |-> c.ret]
        /\ UNCHANGED <<cacheVars, botVars, news_data, schedVars, sideTables, batchVars, callVars>>

-----------------------------------------------------------------------------
(* The cache layer on its own: save_to_cache and get_from_cache called      *)
(* directly, with the payloads the clients pass.                            *)

AlmanacPayloads ==
    {[error_code |-> 0, reason |-> "successed", result |-> p] :
        p \in AlmanacResults}

SolarPayloads ==
    {SolarItem(y, n, v) : y \in Years, n \in TermNames, v \in SolarVersions}

almanac_save_to_cache ==
    /\ \E date \in Dates, data \in AlmanacPayloads :
           /\ almanac_cache' = AlmanacQuery_save_to_cache(almanac_cache, date, data)
           /\ last' = [op |-> "almanac.save_to_cache", key |-> date, data |-> data]
           /\ UNCHANGED <<holiday_cache, solar_terms_cache, otherVars>>

almanac_get_from_cache ==
    /\ \E date \in Dates :
           /\ last' = [op |-> "almanac.get_from_cache", key |-> date,
                       ret |-> AlmanacQuery_get_from_cache(almanac_cache, date)]
           /\ UNCHANGED <<cacheVars, otherVars>>

holiday_save_to_cache ==
    /\ \E date \in Dates, data \in HolidayResults :
           /\ holiday_cache' = HolidayQuery_save_to_cache(holiday_cache, date, data)
           /\ last' = [op |-> "holiday.save_to_cache", key |-> date, data |-> data]
           /\ UNCHANGED <<almanac_cache, solar_terms_cache, otherVars>>

holiday_get_from_cache ==
    /\ \E date \in Dates :
           /\ last' = [op |-> "holiday.get_from_cache", key |-> date,
                       ret |-> HolidayQuery_get_from_cache(holiday_cache, date)]
           /\ UNCHANGED <<cacheVars, otherVars>>

solar_save_to_cache ==
    /\ \E data \in SolarPayloads :
           /\ solar_terms_cache' =
                  SolarTermsQuery_save_to_cache(solar_terms_cache, data)
           /\ last' = [op |-> "solar.save_to_cache",
                       key |-> <<data.pub_year, data.name>>, data |-> data]
           /\ UNCHANGED <<almanac_cache, holiday_cache, otherVars>>

solar_get_from_cache ==
    /\ \E year \in Years, name \in TermNames \cup {NoName} :
           /\ last' = [op |-> "solar.get_from_cache", key |-> <<year, name>>,
                       ret |-> SolarTermsQuery_get_from_cache(solar_terms_cache,
                                                              year, name)]
           /\ UNCHANGED <<cacheVars, otherVars>>

-----------------------------------------------------------------------------
(* FeishuBot: the tenant access token and the three send methods.  Time is  *)
(* in seconds; clock is what datetime.now() returns.                        *)

\* seconds taken off the declared lifetime
ExpiryMargin == 300

\* the lifetime assumed when the reply declares none
DefaultExpire == 7200

\* the horizon of the clock
MaxClock == 1800

\* how far the clock moves between two calls
TickSeconds == {300, 1200}

\* how long the auth request takes
AuthLatencies == {0, 300}

\* lifetimes a reply can declare
ExpireValues == {1800, 200}

\* the auth endpoint: the request raises (transport error, HTTP error status,
\* body not JSON), or a JSON object comes back; "" is a missing token
AuthReplies ==
    {[kind |-> "raises"],
     [kind |-> "json", body |-> [code |-> 99991663, msg |-> "denied"]]}
    \cup {[kind |-> "json",
           body |-> [code |-> 0, tenant_access_token |-> t, expire |-> e]] :
              t \in {"t1", "t2"}, e \in ExpireValues}
    \cup {[kind |-> "json",
           body |-> [code |-> 0, tenant_access_token |-> t]] :
              t \in {"t1", ""}}

\* the message endpoint
PostReplies ==
    {[kind |-> "raises"], [kind |-> "json", body |-> [code |-> 230001]],
     [kind |-> "json", body |-> [code |-> 0]]}

\* dict.get(key, default)
dict_get(d, key, default) == IF key \in DOMAIN d THEN d[key] ELSE default

\* Faulty variant: a cached token is used whatever its expiry.
FeishuBot_token_valid_IgnoresExpiry(tok, exp, now) == tok # ""

\* the test that lets the cached token be returned
FeishuBot_token_valid(tok, exp, now) ==
    tok # "" /\ exp # None /\ now < exp.at

\* Faulty variant: the declared lifetime is recorded without the margin.
FeishuBot_expires_at_NoMargin(result, now) ==
    [at |-> now + dict_get(result, "expire", DefaultExpire)]

\* expires_in and token_expires_at from the reply and the time it was read
FeishuBot_expires_at(result, now) ==
    [at |-> now + (dict_get(result, "expire", DefaultExpire) - ExpiryMargin)]

\* [access_token, token_expires_at, ret, reqs, now]: the fields afterwards,
\* the token returned ("" for None), the requests made, the time on return
FeishuBot_get_access_token(tok, exp, now, auth, latency) ==
    LET req == [to |-> "auth", sent |-> now, done |-> now + latency]
    IN IF FeishuBot_token_valid(tok, exp, now)
       THEN [access_token |-> tok, token_expires_at |-> exp, ret |-> tok,
             reqs |-> <<>>, now |-> now]
       ELSE IF auth.kind = "raises" \/ auth.body.code # 0
       THEN [access_token |-> tok, token_expires_at |-> exp, ret |-> "",
             reqs |-> <<req>>, now |-> now + latency]
       ELSE [access_token |-> auth.body.tenant_access_token,
             token_expires_at |-> FeishuBot_expires_at(auth.body,
                                                       now + latency),
             ret |-> auth.body.tenant_access_token,
             reqs |-> <<req>>, now |-> now + latency]

\* Faulty variant: the send goes on to its POST without a token.
FeishuBot_send_PostsWithoutToken(msg_type, tok, exp, now, auth, latency, post) ==
    LET t == FeishuBot_get_access_token(tok, exp, now, auth, latency)
    IN [access_token |-> t.access_token,
        token_expires_at |-> t.token_expires_at,
        ret |-> post.kind = "json" /\ post.body.code = 0,
        reqs |-> t.reqs \o <<[to |-> "message", msg_type |-> msg_type,
                              sent |-> t.now, token |-> t.ret,
                              token_expires_at |-> t.now]>>,
        now |-> t.now]

\* the body shared by send_message, send_text_message and
\* send_interactive_message: [access_token, token_expires_at, ret, reqs, now]
FeishuBot_send(msg_type, tok, exp, now, auth, latency, post) ==
    LET t == FeishuBot_get_access_token(tok, exp, now, auth, latency)
    IN IF t.ret = ""
       THEN [access_token |-> t.access_token,
             token_expires_at |-> t.token_expires_at,
             ret |-> FALSE, reqs |-> t.reqs, now |-> t.now]
       ELSE [access_token |-> t.access_token,
             token_expires_at |-> t.token_expires_at,
             ret |-> post.kind = "json" /\ post.body.code = 0,
             reqs |-> t.reqs \o <<[to |-> "message", msg_type |-> msg_type,
                                   sent |-> t.now, token |-> t.ret,
                                   token_expires_at |-> t.token_expires_at.at]>>,
             now |-> t.now]

\* one send call, from the state of the bot and the replies it meets
Send(op, msg_type) ==
    /\ \E auth \in Inputs(~FeishuBot_token_valid(access_token, token_expires_at,
                                                 clock), AuthReplies) :
       \E latency \in Inputs(~FeishuBot_token_valid(access_token,
                                                    token_expires_at, clock),
                             AuthLatencies) :
       \E t \in {FeishuBot_get_access_token(access_token, token_expires_at,
                                            clock, auth, latency)} :
       \E post \in Inputs(t.ret # "", PostReplies) :
       \E s \in {FeishuBot_send(msg_type, access_token, token_expires_at, clock,
                                auth, latency, post)} :
           /\ s.now <= MaxClock
           /\ access_token' = s.access_token
           /\ token_expires_at' = s.token_expires_at
           /\ clock' = s.now
           /\ last' = [op |-> op,
                       before |-> [access_token |-> access_token,
                                   token_expires_at |-> token_expires_at,
                                   now |-> clock],
                       auth_up |-> Consumed(Len(t.reqs), auth),
                       reqs |-> s.reqs, ret |-> s.ret]
           /\ UNCHANGED <<cacheVars, news_data, schedVars, sideTables, batchVars, callVars>>

send_message == Send("send_message", "post")

send_text_message == Send("send_text_message", "text")

send_interactive_message == Send("send_interactive_message", "interactive")

\* time passes between two calls
Tick ==
    /\ \E d \in TickSeconds :
           /\ clock + d <= MaxClock
           /\ clock' = clock + d
           /\ last' = [op |-> "Tick"]
           /\ UNCHANGED <<cacheVars, access_token, token_expires_at, news_data,
                          schedVars, sideTables, batchVars, callVars>>

-----------------------------------------------------------------------------
(* AlmanacQuery.query_next_n_days *)

\* the days after 2024-02-05 that query_next_n_days is followed over
MaxDays == 4

\* the largest n of query_next_n_days(n)
MaxN == 2

Calendar == {<<2024, 2, 5 + i>> : i \in 0..MaxDays}

\* (datetime.strptime(date) + timedelta(days=i)).strftime('%Y-%m-%d')
AddDays(date, i) ==
    CHOOSE d \in Calendar : Ordinal(d) = Ordinal(date) + i

\* AlmanacQuery.get_max_date: SELECT MAX(date), None on an empty table
AlmanacQuery_get_max_date(tbl) ==
    IF tbl = {} THEN None
    ELSE (CHOOSE r \in tbl : \A s \in tbl : DateLE(s.date, r.date)).date

RECURSIVE QueryEach(_, _, _)
\* the loop over dates: [cache, results], the table afterwards and the
\* results with error_code 0
QueryEach(tbl, dates, replies) ==
    IF dates = <<>> THEN [cache |-> tbl, results |-> <<>>]
    ELSE LET r == AlmanacQuery_query_almanac(tbl, Head(dates), Head(replies))
             rest == QueryEach(r.cache, Tail(dates), Tail(replies))
         IN [cache |-> rest.cache,
             results |-> (IF r.ret.error_code = 0 THEN <<r.ret>> ELSE <<>>)
                         \o rest.results]

\* the dates of query_next_n_days(n): the n days after MAX(date), or after
\* the current date when the table is empty
NextDates(tbl, n, current_date) ==
    LET max_date == IF AlmanacQuery_get_max_date(tbl) = None
                    THEN current_date
                    ELSE AlmanacQuery_get_max_date(tbl)
    IN [i \in 1..n |-> AddDays(max_date, i)]

\* AlmanacQuery.query_next_n_days over its dates: [cache, results]
AlmanacQuery_query_next_n_days(tbl, dates, replies) ==
    QueryEach(tbl, dates, replies)

\* almanac.query_next_n_days(n), as fetch_almanac_data and the route
\* /almanac/next_days call it; first is the first date any call attempted
query_next_n_days ==
    /\ \E n \in 1..MaxN : \E replies \in [1..n -> AlmanacReplies] :
           /\ LET max_date == AlmanacQuery_get_max_date(almanac_cache)
              IN Ordinal(IF max_date = None THEN wall_date ELSE max_date) + n
                     <= Ordinal(<<2024, 2, 5>>) + MaxDays
           /\ LET dates == NextDates(almanac_cache, n, wall_date)
                  q == AlmanacQuery_query_next_n_days(almanac_cache, dates,
                                                      replies)
              IN /\ almanac_cache' = q.cache
                 /\ last' = [op |-> "query_next_n_days",
                             first |-> IF last.op = "query_next_n_days"
                                       THEN last.first ELSE dates[1],
                             dates |-> dates, up |-> replies,
                             results |-> Len(q.results)]
    /\ UNCHANGED <<holiday_cache, solar_terms_cache, otherVars>>

-----------------------------------------------------------------------------
(* AlmanacQuery.query_almanac on concurrent request threads.  The SELECT of *)
(* get_from_cache and the INSERT OR REPLACE of save_to_cache are each one   *)
(* SQLite transaction; the HTTP request lies between them.                  *)

\* request threads followed
MaxWorkers == 2

\* a thread enters query_almanac(query_date) and reads the cache, lines
\* 180-187: on a hit it returns the cached dict
query_almanac_begin ==
    /\ Len(workers) < MaxWorkers
    /\ \E query_date \in Dates :
       \E cached_data \in {AlmanacQuery_get_from_cache(almanac_cache,
                                                       query_date)} :
           /\ workers' = Append(workers,
                  [key |-> query_date,
                   pc |-> IF cached_data # None THEN "done" ELSE "fetch",
                   hit |-> cached_data # None, wrote |-> FALSE,
                   ret |-> cached_data])
           /\ last' = [op |-> "query_almanac_begin", key |-> query_date]
    /\ UNCHANGED <<cacheVars, botVars, news_data, pc, running, jobs, refresh,
                   env, max_sent_id, daily_cache, sideTables, batchVars, callVars>>

\* the thread's request, lines 192-199 and 205-211: a failure is returned
query_almanac_fetch ==
    /\ \E t \in 1..Len(workers) : \E reply \in AlmanacReplies :
           /\ workers[t].pc = "fetch"
           /\ workers' = [workers EXCEPT ![t] =
                  IF reply.raises
                  THEN [@ EXCEPT !.pc = "done", !.ret = RequestError]
                  ELSE IF reply.json.error_code = 0
                  THEN [@ EXCEPT !.pc = "save", !.ret = reply.json]
                  ELSE [@ EXCEPT !.pc = "done", !.ret = reply.json]]
           /\ last' = [op |-> "query_almanac_fetch", key |-> workers[t].key]
           /\ UNCHANGED <<cacheVars, botVars, news_data, pc, running, jobs,
                          refresh, env, max_sent_id, daily_cache, sideTables, batchVars, callVars>>

\* the thread's save_to_cache and return, lines 201-204
query_almanac_save ==
    /\ \E t \in 1..Len(workers) :
           /\ workers[t].pc = "save"
           /\ almanac_cache' = AlmanacQuery_save_to_cache(
                                   almanac_cache, workers[t].key, workers[t].ret)
           /\ workers' = [workers EXCEPT ![t] =
                             [@ EXCEPT !.pc = "done", !.wrote = TRUE]]
           /\ last' = [op |-> "query_almanac_save", key |-> workers[t].key]
           /\ UNCHANGED <<holiday_cache, solar_terms_cache, botVars, news_data,
                          pc, running, jobs, refresh, env, max_sent_id,
                          daily_cache, sideTables, batchVars, callVars>>

-----------------------------------------------------------------------------
(* The cache operations over a database that can fail: db_ok = FALSE is     *)
(* sqlite3 raising inside the operation (file locked, disk full, ...)       *)

CacheTables == {"almanac_cache", "holiday_cache", "solar_terms_cache"}

\* The tables share no state, so the operations on each are followed from
\* the initial state on their own rather than interleaved.
OnTable(table) == IF last.op = "init" THEN TRUE ELSE last.table = table

\* get_from_cache of the three clients: a failure is logged and None comes
\* back
get_from_cache ==
    /\ \E table \in CacheTables : \E date \in Dates : \E db_ok \in BOOLEAN :
           /\ OnTable(table)
           /\ last' = [op |-> "get_from_cache", table |-> table,
                       db_ok |-> db_ok, raised |-> FALSE,
                       ret |-> IF ~db_ok THEN None
                               ELSE CASE table = "almanac_cache" ->
                                           AlmanacQuery_get_from_cache(
                                               almanac_cache, date)
                                      [] table = "holiday_cache" ->
                                           HolidayQuery_get_from_cache(
                                               holiday_cache, date)
                                      [] OTHER ->
                                           SolarTermsQuery_get_from_cache(
                                               solar_terms_cache, date[1],
                                               NoName)]
           /\ UNCHANGED <<cacheVars, otherVars>>

\* save_to_cache of the three clients: a failure is logged, nothing is
\* written and the method returns
save_to_cache ==
    /\ \E db_ok \in BOOLEAN :
           /\ \/ \E date \in Dates, data \in AlmanacPayloads :
                   /\ OnTable("almanac_cache")
                   /\ almanac_cache' =
                          IF db_ok
                          THEN AlmanacQuery_save_to_cache(almanac_cache, date,
                                                          data)
                          ELSE almanac_cache
                   /\ last' = [op |-> "save_to_cache",
                               table |-> "almanac_cache", db_ok |-> db_ok,
                               raised |-> FALSE]
                   /\ UNCHANGED <<holiday_cache, solar_terms_cache>>
              \/ \E date \in Dates, data \in HolidayResults :
                   /\ OnTable("holiday_cache")
                   /\ holiday_cache' =
                          IF db_ok
                          THEN HolidayQuery_save_to_cache(holiday_cache, date,
                                                          data)
                          ELSE holiday_cache
                   /\ last' = [op |-> "save_to_cache",
                               table |-> "holiday_cache", db_ok |-> db_ok,
                               raised |-> FALSE]
                   /\ UNCHANGED <<almanac_cache, solar_terms_cache>>
              \/ \E data \in SolarPayloads :
                   /\ OnTable("solar_terms_cache")
                   /\ solar_terms_cache' =
                          IF db_ok
                          THEN SolarTermsQuery_save_to_cache(solar_terms_cache,
                                                             data)
                          ELSE solar_terms_cache
                   /\ last' = [op |-> "save_to_cache",
                               table |-> "solar_terms_cache", db_ok |-> db_ok,
                               raised |-> FALSE]
                   /\ UNCHANGED <<almanac_cache, holiday_cache>>
           /\ UNCHANGED otherVars

\* AlmanacQuery.save_almanac_explanation: INSERT OR REPLACE under
\* UNIQUE(field_name, field_value); a failure is logged and raised again
save_almanac_explanation ==
    /\ \E field_value \in {"jin", "mu"}, explanation \in {"e1", "e2"} :
       \E db_ok \in BOOLEAN :
           /\ OnTable("almanac_explanation_cache")
           /\ almanac_explanation_cache' =
                  IF db_ok
                  THEN {r \in almanac_explanation_cache :
                           ~(/\ r.field_name = "wuxing"
                             /\ r.field_value = field_value)}
                       \cup {[field_name |-> "wuxing",
                              field_value |-> field_value,
                              explanation |-> explanation]}
                  ELSE almanac_explanation_cache
           /\ last' = [op |-> "save_almanac_explanation",
                       table |-> "almanac_explanation_cache", db_ok |-> db_ok,
                       raised |-> ~db_ok]
           /\ UNCHANGED <<cacheVars, botVars, news_data, schedVars,
                          seasonal_food_cache, batchVars, callVars>>

\* SolarTermsQuery.save_seasonal_food for a list of one food: INSERT OR
\* REPLACE under UNIQUE(term, province, vegatables); a failure is logged and
\* raised again, the connection rolls back
save_seasonal_food ==
    /\ \E vegatables \in {"luobo", "baicai"}, food_advice \in {"a1", "a2"} :
       \E db_ok \in BOOLEAN :
           /\ OnTable("seasonal_food_cache")
           /\ seasonal_food_cache' =
                  IF db_ok
                  THEN {r \in seasonal_food_cache :
                           ~(/\ r.term = "lichun"
                             /\ r.province = "shandong"
                             /\ r.vegatables = vegatables)}
                       \cup {[term |-> "lichun", province |-> "shandong",
                              vegatables |-> vegatables,
                              food_advice |-> food_advice]}
                  ELSE seasonal_food_cache
           /\ last' = [op |-> "save_seasonal_food",
                       table |-> "seasonal_food_cache", db_ok |-> db_ok,
                       raised |-> ~db_ok]
           /\ UNCHANGED <<cacheVars, botVars, news_data, schedVars,
                          almanac_explanation_cache, batchVars, callVars>>

-----------------------------------------------------------------------------
(* Direct calls of the helper methods *)

\* date arguments that are no YYYY-MM-DD text: a display date "2月5日"
MalformedDates == {<<2, 5>>}

\* the day before the first term of the year and the day after its last one
EdgeDates == {<<2024, 2, 3>>, <<2024, 2, 20>>}

\* NewsIntegrationAPI().fetch_news_from_source(source_name, url)
fetch_news_from_source ==
    /\ \E i \in 1..Len(news_sources) : \E reply \in NewsReplies :
       \E r \in {NewsIntegrationAPI_fetch_news_from_source(news_sources[i],
                                                           reply)} :
           /\ last' = [op |-> "fetch_news_from_source", arg |-> news_sources[i],
                       up |-> reply, raised |-> r.raised, ret |-> r.ret]
           /\ UNCHANGED <<cacheVars, otherVars>>

\* SolarTermsQuery.get_current_solar_term(query_date): the strptime of line
\* 239 stands before the try, so its ValueError leaves the method
get_current_solar_term ==
    /\ \E arg \in Dates \cup {NoDate} \cup MalformedDates \cup EdgeDates :
       \E today \in Inputs(arg = NoDate, Dates) :
       \E query_date \in {IF arg = NoDate THEN today ELSE arg} :
       \E outcome \in Inputs(
               IsIsoDate(query_date)
               /\ SolarRows(solar_terms_cache, query_date[1], NoName) = <<>>,
               SolarOutcomes) :
           IF ~IsIsoDate(query_date)
           THEN /\ last' = [op |-> "get_current_solar_term", arg |-> arg,
                            raised |-> TRUE, ret |-> None]
                /\ UNCHANGED <<cacheVars, otherVars>>
           ELSE \E r \in {SolarTermsQuery_get_current_solar_term(
                              solar_terms_cache, query_date, outcome)} :
                   /\ solar_terms_cache' = r.cache
                   /\ last' = [op |-> "get_current_solar_term", arg |-> arg,
                               raised |-> FALSE, ret |-> r.ret]
                   /\ UNCHANGED <<almanac_cache, holiday_cache, otherVars>>

\* GLM4Query.chat: [raised, ret]; choices[0] of a response without choices
\* raises IndexError, outside any try
GLM4Query_chat(llm) ==
    IF GLM4Query_query(llm).error_code # 0
    THEN [raised |-> FALSE, ret |-> Str("request failed")]
    ELSE IF llm.kind = "no_choices"
    THEN [raised |-> TRUE, ret |-> None]
    ELSE [raised |-> FALSE, ret |-> Str(llm.content)]

chat ==
    /\ \E llm \in LLMReplies :
           /\ last' = [op |-> "chat", up |-> llm,
                       raised |-> GLM4Query_chat(llm).raised,
                       ret |-> GLM4Query_chat(llm).ret]
           /\ UNCHANGED <<cacheVars, otherVars>>

\* the envelopes of get_usd_rates and get_gold_price; a dict is given by the
\* set of its keys, {} being the empty dict
CurrencyResults == {[error_code |-> 0, data |-> {"jpy", "cny"}],
                    [error_code |-> 1, data |-> {}]}

GoldResults == {[error_code |-> 0, data |-> {"symbol", "price", "time"}],
                [error_code |-> 1, data |-> {}]}

\* CurrencyAPI.get_all_market_data: the envelope over the two results
CurrencyAPI_get_all_market_data(currency_result, gold_result) ==
    LET all_data ==
            [currency |-> IF currency_result.error_code = 0
                          THEN currency_result.data ELSE {},
             gold |-> IF gold_result.error_code = 0
                      THEN gold_result.data ELSE {}]
    IN IF currency_result.error_code = 0 /\ gold_result.error_code = 0
       THEN [error_code |-> 0, message |-> "success", data |-> all_data]
       ELSE IF currency_result.error_code = 0 \/ gold_result.error_code = 0
       THEN [error_code |-> 1, message |-> "partial success",
             data |-> all_data]
       ELSE [error_code |-> 2, message |-> "all failed", data |-> all_data]

\* StockMarketFlow.format_fund_flow_message, lines 229-255: the sections of
\* market_data that enter the message
MarketSections(market_data) ==
    IF market_data # None /\ market_data.error_code \in {0, 1}
    THEN {s \in {"currency", "gold"} : market_data.data[s] # {}}
    ELSE {}

\* CurrencyAPI(key).get_all_market_data() and the use of its envelope by the
\* message formatter
get_all_market_data ==
    /\ \E currency_result \in CurrencyResults, gold_result \in GoldResults :
       \E r \in {CurrencyAPI_get_all_market_data(currency_result,
                                                 gold_result)} :
           /\ last' = [op |-> "get_all_market_data", ret |-> r,
                       used |-> MarketSections(r)]
           /\ UNCHANGED <<cacheVars, otherVars>>

-----------------------------------------------------------------------------
(* The process environment, app.py's startup and scheduler.init_scheduler  *)

\* an unset variable reads as "" (os.getenv(name, ''))
Envs ==
    [FEISHU_CHAT_ID : {"", "oc_news"}, FEISHU_CHAT_ID_COIN : {"", "oc_coin"},
     GOLD_API_KEY : {"", "gold"}]

FullEnv ==
    [FEISHU_CHAT_ID |-> "oc_news", FEISHU_CHAT_ID_COIN |-> "oc_coin",
     GOLD_API_KEY |-> "gold"]

\* the attributes class Config defines, among those the startup and the jobs
\* read; init_currency_api, FEISHU_CHAT_ID and GOLD_API_KEY are not defined
ConfigAttributes == {"GLM4_API_KEY", "FEISHU_APP_ID", "FEISHU_APP_SECRET",
                     "FEISHU_CHAT_ID_COIN"}

\* getattr(config, name): [raised, value]; a missing attribute raises
\* AttributeError
config_get(e, name) ==
    IF name \in ConfigAttributes
    THEN [raised |-> FALSE,
          value |-> IF name \in DOMAIN e THEN e[name] ELSE "set"]
    ELSE [raised |-> TRUE, value |-> ""]

\* the add_job calls of init_scheduler, in order
JobRegistrations ==
    <<[id |-> "send_daily_news_to_feishu_morning",
       func |-> "send_daily_news_to_feishu"],
      [id |-> "send_crypto_news_to_feishu",
       func |-> "send_crypto_news_to_feishu"],
      [id |-> "send_market_flow_with_currency",
       func |-> "send_market_flow_with_currency"]>>

JobIds == {JobRegistrations[i].id : i \in 1..Len(JobRegistrations)}

Handlers == {JobRegistrations[i].func : i \in 1..Len(JobRegistrations)}

\* Faulty variant: a job registered under an id in use is added beside the
\* earlier one.
add_job_KeepsBoth(store, id, func, replace_existing) ==
    Append(store, [id |-> id, func |-> func])

\* scheduler.add_job(func, id=..., replace_existing=...): with the id in use
\* the job is replaced in place if replace_existing, else the call is
\* refused (ConflictingIdError) and the store is as before
add_job(store, id, func, replace_existing) ==
    IF \E i \in 1..Len(store) : store[i].id = id
    THEN IF replace_existing
         THEN [i \in 1..Len(store) |->
                  IF store[i].id = id THEN [id |-> id, func |-> func]
                  ELSE store[i]]
         ELSE store
    ELSE Append(store, [id |-> id, func |-> func])

RECURSIVE AddJobs(_, _, _)
\* the add_job calls from the i-th on
AddJobs(store, regs, i) ==
    IF i > Len(regs) THEN store
    ELSE AddJobs(add_job(store, regs[i].id, regs[i].func, TRUE), regs, i + 1)

\* a later scheduler.add_job(func, id=id, replace_existing=...) on the
\* scheduler init_scheduler built, for any of its ids and handlers
add_job_again ==
    /\ jobs # <<>>
    /\ \E id \in JobIds : \E func \in Handlers :
       \E replace_existing \in BOOLEAN :
           /\ jobs' = add_job(jobs, id, func, replace_existing)
           /\ last' = [op |-> "add_job", id |-> id, func |-> func,
                       replace_existing |-> replace_existing,
                       before |-> jobs]
    /\ UNCHANGED <<sideTables, batchVars, callVars, cacheVars, botVars, news_data, pc, running, refresh, env,
                   max_sent_id, daily_cache, workers>>

\* app.py, lines 87-92: config.init_currency_api() is evaluated before
\* init_scheduler(app) is reached; an exception here ends the import
app_startup ==
    /\ pc = "app_startup"
    /\ pc' = IF config_get(env, "init_currency_api").raised
             THEN "aborted" ELSE "init_scheduler"
    /\ last' = [op |-> "app_startup",
                raised |-> config_get(env, "init_currency_api").raised]
    /\ UNCHANGED <<sideTables, batchVars, callVars, cacheVars, botVars, news_data, running, jobs, refresh, env,
                   max_sent_id, daily_cache, workers>>

\* init_scheduler, lines 24-274: the scheduler is created and the three jobs
\* are added
init_scheduler_add_jobs ==
    /\ pc = "init_scheduler"
    /\ jobs' = AddJobs(<<>>, JobRegistrations, 1)
    /\ pc' = "scheduler_start"
    /\ last' = [op |-> "init_scheduler_add_jobs"]
    /\ UNCHANGED <<sideTables, batchVars, callVars, cacheVars, botVars, news_data, running, refresh, env,
                   max_sent_id, daily_cache, workers>>

\* line 286
scheduler_start ==
    /\ pc = "scheduler_start"
    /\ running' = TRUE
    /\ pc' = "thread_start"
    /\ last' = [op |-> "scheduler_start"]
    /\ UNCHANGED <<sideTables, batchVars, callVars, cacheVars, botVars, news_data, jobs, refresh, env,
                   max_sent_id, daily_cache, workers>>

\* lines 294-295: threading.Thread(target=..., daemon=True).start()
thread_start ==
    /\ pc = "thread_start"
    /\ refresh' = [refresh EXCEPT !.started = @ + 1]
    /\ pc' = "return"
    /\ last' = [op |-> "thread_start"]
    /\ UNCHANGED <<sideTables, batchVars, callVars, cacheVars, botVars, news_data, running, jobs, env,
                   max_sent_id, daily_cache, workers>>

\* Faulty variant: init_scheduler joins the refresh thread before returning.
init_scheduler_return_Joins ==
    /\ pc = "return"
    /\ refresh.finished = refresh.started
    /\ pc' = "returned"
    /\ last' = [op |-> "init_scheduler_return"]
    /\ UNCHANGED <<sideTables, batchVars, callVars, cacheVars, botVars, news_data, running, jobs, refresh, env,
                   max_sent_id, daily_cache, workers>>

\* lines 296-299: the log line and app.scheduler = scheduler
init_scheduler_return ==
    /\ pc = "return"
    /\ pc' = "returned"
    /\ last' = [op |-> "init_scheduler_return"]
    /\ UNCHANGED <<sideTables, batchVars, callVars, cacheVars, botVars, news_data, running, jobs, refresh, env,
                   max_sent_id, daily_cache, workers>>

-----------------------------------------------------------------------------
(* The scheduled job handlers of scheduler.py *)

\* when a trigger fires, as the handlers read datetime.now(): a Saturday or
\* Sunday, a weekday outside 8:30-17:30, a weekday inside it
FireTimes == [weekday : {4, 5}, minutes : {509, 510, 1050, 1051}]

\* 8:30 and 17:30 as minutes of the day
start_time_minutes == 510

end_time_minutes == 1050

\* Faulty variant: the end of the window is not checked.
InWorkHours_NoEnd(when) == ~(when.minutes < start_time_minutes)

\* the time of day passes the check of lines 113-122
InWorkHours(when) ==
    ~(\/ when.minutes < start_time_minutes
      \/ when.minutes > end_time_minutes)

\* the replies of the three news sources met by one run of the news job
JobNewsReplies ==
    {[i \in 1..Len(news_sources) |-> r] :
        r \in {[kind |-> "request_error"], [kind |-> "not_object"],
               [kind |-> "object", status |-> "success",
                items |-> <<NewsItem>>]}}

\* the crypto endpoint: the request fails or reports an error status, or it
\* gives a list of news; int = FALSE is an id that arrived as a JSON string
CryptoReplies ==
    {[kind |-> "error"],
     [kind |-> "ok", news |-> <<>>],
     [kind |-> "ok", news |-> <<[id |-> 1, int |-> TRUE]>>],
     [kind |-> "ok", news |-> <<[id |-> 2, int |-> TRUE],
                                [id |-> 1, int |-> TRUE]>>],
     [kind |-> "ok", news |-> <<[id |-> 2, int |-> TRUE],
                                [id |-> 3, int |-> FALSE]>>]}

\* the auth endpoint as the jobs meet it: the request raises, or a token
\* comes back at once
JobAuthReplies ==
    {[kind |-> "raises"],
     [kind |-> "json",
      body |-> [code |-> 0, tenant_access_token |-> "t1", expire |-> 1800]]}

JobAuthLatencies == {0}

RECURSIVE MaxId(_, _)
\* max over the ids of a list, from a start value
MaxId(news, m) ==
    IF news = <<>> THEN m
    ELSE MaxId(Tail(news), IF Head(news).id > m THEN Head(news).id ELSE m)

\* CryptoNewsAPI.format_news_for_feishu: the envelope's error_code and the
\* length of its news_list
CryptoNewsAPI_format_news_for_feishu(news) ==
    IF news = <<>>
    THEN [error_code |-> 1, news_count |-> 0, news |-> <<>>]
    ELSE [error_code |-> 0, news_count |-> Len(news), news |-> news]

\* the ids of a list of news
Ids(news) == {news[i].id : i \in 1..Len(news)}

\* Faulty variant: max_sent_id is not advanced.
CryptoNewsAPI_get_new_crypto_news_KeepsMax(max_id, reply) ==
    IF reply.kind = "error"
    THEN [raised |-> FALSE,
          ret |-> [error_code |-> 1, news_count |-> 0, news |-> <<>>],
          max_sent_id |-> max_id]
    ELSE IF \E i \in 1..Len(reply.news) : ~reply.news[i].int
    THEN [raised |-> TRUE, ret |-> None, max_sent_id |-> max_id]
    ELSE [raised |-> FALSE,
          ret |-> CryptoNewsAPI_format_news_for_feishu(
                      SelectSeq(reply.news, LAMBDA n : n.id > max_id)),
          max_sent_id |-> max_id]

\* Faulty variant: an id equal to max_sent_id passes the filter.
CryptoNewsAPI_get_new_crypto_news_FromMax(max_id, reply) ==
    IF reply.kind = "error"
    THEN [raised |-> FALSE,
          ret |-> [error_code |-> 1, news_count |-> 0, news |-> <<>>],
          max_sent_id |-> max_id]
    ELSE IF \E i \in 1..Len(reply.news) : ~reply.news[i].int
    THEN [raised |-> TRUE, ret |-> None, max_sent_id |-> max_id]
    ELSE [raised |-> FALSE,
          ret |-> CryptoNewsAPI_format_news_for_feishu(
                      SelectSeq(reply.news, LAMBDA n : n.id >= max_id)),
          max_sent_id |-> MaxId(reply.news, max_id)]

\* CryptoNewsAPI.get_new_crypto_news: [raised, ret, max_sent_id]; comparing a
\* str id with max_sent_id raises TypeError before max_sent_id is assigned
CryptoNewsAPI_get_new_crypto_news(max_id, reply) ==
    IF reply.kind = "error"
    THEN [raised |-> FALSE,
          ret |-> [error_code |-> 1, news_count |-> 0, news |-> <<>>],
          max_sent_id |-> max_id]
    ELSE IF \E i \in 1..Len(reply.news) : ~reply.news[i].int
    THEN [raised |-> TRUE, ret |-> None, max_sent_id |-> max_id]
    ELSE LET new_news_list == SelectSeq(reply.news,
                                        LAMBDA n : n.id > max_id)
         IN [raised |-> FALSE,
             ret |-> CryptoNewsAPI_format_news_for_feishu(new_news_list),
             max_sent_id |-> MaxId(new_news_list, max_id)]

\* crypto_news_api.get_new_crypto_news() called outside the job, as the
\* route /news/crypto/test does
get_new_crypto_news ==
    /\ \E reply \in CryptoReplies :
       \E got \in {CryptoNewsAPI_get_new_crypto_news(max_sent_id, reply)} :
           /\ max_sent_id' = got.max_sent_id
           /\ returned_ids' = returned_ids
                               \cup (IF got.raised THEN {} ELSE Ids(got.ret.news))
           /\ last' = [op |-> "get_new_crypto_news", before |-> max_sent_id,
                       reply |-> reply, raised |-> got.raised, ret |-> got.ret]
           /\ UNCHANGED <<cacheVars, botVars, news_data, pc, running, jobs,
                          refresh, env, daily_cache, workers, sideTables,
                          batchVars, crypto_calls, adviceVars>>

\* the callers of get_new_crypto_news on the one crypto_news_api instance
\* (crypto_news_api.py:243): the scheduler's worker thread in
\* send_crypto_news_to_feishu and a request thread in /news/crypto/test
Callers == {"job", "endpoint"}

\* a caller outside the method
Idle == [at |-> "idle"]

\* lines 195-199: the page is fetched; a failed fetch is returned as it is
crypto_fetch(c) ==
    /\ crypto_calls[c].at = "idle"
    /\ \E reply \in CryptoReplies :
          crypto_calls' = [crypto_calls EXCEPT ![c] =
              IF reply.kind = "error"
              THEN [at |-> "returned", reply |-> reply, raised |-> FALSE,
                    news |-> <<>>]
              ELSE [at |-> "fetched", reply |-> reply]]
    /\ UNCHANGED <<cacheVars, botVars, news_data, schedVars, sideTables,
                   batchVars, returned_ids, adviceVars, last>>

\* lines 201-209: the loop keeps the items above self.max_sent_id, as it is
\* while the loop runs, and tracks the maximum in the local new_max_id
crypto_filter(c) ==
    /\ crypto_calls[c].at = "fetched"
    /\ crypto_calls' = [crypto_calls EXCEPT ![c] =
           LET news_list == crypto_calls[c].reply.news
               new_news_list == SelectSeq(news_list,
                                          LAMBDA n : n.id > max_sent_id)
           IN IF \E i \in 1..Len(news_list) : ~news_list[i].int
              THEN [at |-> "returned", reply |-> crypto_calls[c].reply,
                    raised |-> TRUE, news |-> <<>>]
              ELSE [at |-> "filtered", reply |-> crypto_calls[c].reply,
                    new_news_list |-> new_news_list,
                    new_max_id |-> MaxId(new_news_list, max_sent_id)]]
    /\ UNCHANGED <<cacheVars, botVars, news_data, schedVars, sideTables,
                   batchVars, returned_ids, adviceVars, last>>

\* lines 212-224: self.max_sent_id is assigned the local maximum when items
\* were kept, and the kept items are returned to the caller
crypto_update(c) ==
    /\ crypto_calls[c].at = "filtered"
    /\ max_sent_id' = IF crypto_calls[c].new_news_list # <<>>
                      THEN crypto_calls[c].new_max_id ELSE max_sent_id
    /\ crypto_calls' = [crypto_calls EXCEPT ![c] =
           [at |-> "returned", reply |-> crypto_calls[c].reply,
            raised |-> FALSE, news |-> crypto_calls[c].new_news_list]]
    /\ returned_ids' = returned_ids \cup Ids(crypto_calls[c].new_news_list)
    /\ UNCHANGED <<cacheVars, botVars, news_data, pc, running, jobs,
                   refresh, env, daily_cache, workers, sideTables,
                   batchVars, adviceVars, last>>

\* both callers have their results: the job's next trigger and the next
\* request call the method again
crypto_next_round ==
    /\ \A c \in Callers : crypto_calls[c].at = "returned"
    /\ crypto_calls' = [c \in Callers |-> Idle]
    /\ UNCHANGED <<cacheVars, botVars, news_data, schedVars, sideTables,
                   batchVars, returned_ids, adviceVars, last>>

\* the state of the feishu_bot singleton as a handler meets it
BotState == [access_token |-> access_token,
             token_expires_at |-> token_expires_at, now |-> clock]

\* a handler's body ran to this point without sending
Ran(raised, steps, bot, max_id) ==
    [raised |-> raised, steps |-> steps, reqs |-> <<>>,
     access_token |-> bot.access_token,
     token_expires_at |-> bot.token_expires_at, now |-> bot.now,
     max_sent_id |-> max_id]

\* feishu_bot.send_news_message / send_crypto_news_message as a handler's
\* last step: the card is built and send_interactive_message posts it
Delivered(steps, call, bot, max_id, auth, latency, post) ==
    LET s == FeishuBot_send("interactive", bot.access_token,
                            bot.token_expires_at, bot.now, auth, latency,
                            post)
    IN [raised |-> FALSE,
        steps |-> Append(steps, [call |-> call, ok |-> s.ret]),
        reqs |-> s.reqs, access_token |-> s.access_token,
        token_expires_at |-> s.token_expires_at, now |-> s.now,
        max_sent_id |-> max_id]

\* Faulty variant: the news are sent whatever integrate_news_with_glm4 said.
send_daily_news_to_feishu_body_SendsAnyway(e, bot, max_id, up) ==
    LET news == NewsIntegrationAPI_fetch_all_news(up.replies)
        integrated == NewsIntegrationAPI_integrate_news_with_glm4(news,
                                                                  up.llm)
        steps == <<[call |-> "fetch_all_news", ok |-> TRUE],
                   [call |-> "integrate_news_with_glm4",
                    ok |-> integrated.ret.error_code = 0]>>
    IN IF e.FEISHU_CHAT_ID = "" THEN Ran(FALSE, <<>>, bot, max_id)
       ELSE IF ~up.client_ok THEN Ran(TRUE, <<>>, bot, max_id)
       ELSE Delivered(steps, "send_news_message", bot, max_id, up.auth,
                      up.latency, up.post)

\* the try block of send_daily_news_to_feishu, lines 69-96, meeting the
\* upstream outcomes up; up.client_ok = FALSE is the LLM client's
\* constructor raising inside NewsIntegrationAPI()
send_daily_news_to_feishu_body(e, bot, max_id, up) ==
    LET news == NewsIntegrationAPI_fetch_all_news(up.replies)
        integrated == NewsIntegrationAPI_integrate_news_with_glm4(news,
                                                                  up.llm)
        steps == <<[call |-> "fetch_all_news", ok |-> TRUE],
                   [call |-> "integrate_news_with_glm4",
                    ok |-> integrated.ret.error_code = 0]>>
    IN IF e.FEISHU_CHAT_ID = "" THEN Ran(FALSE, <<>>, bot, max_id)
       ELSE IF ~up.client_ok THEN Ran(TRUE, <<>>, bot, max_id)
       ELSE IF integrated.ret.error_code = 0
       THEN Delivered(steps, "send_news_message", bot, max_id, up.auth,
                      up.latency, up.post)
       ELSE Ran(FALSE, steps, bot, max_id)

\* the try block of send_crypto_news_to_feishu, lines 103-151
send_crypto_news_to_feishu_body(e, bot, max_id, when, up) ==
    LET got == CryptoNewsAPI_get_new_crypto_news(max_id, up.reply)
        steps == <<[call |-> "get_new_crypto_news",
                    ok |-> ~got.raised /\ got.ret.error_code = 0]>>
    IN IF when.weekday >= 5 THEN Ran(FALSE, <<>>, bot, max_id)
       ELSE IF ~InWorkHours(when) THEN Ran(FALSE, <<>>, bot, max_id)
       ELSE IF config_get(e, "FEISHU_CHAT_ID_COIN").value = ""
       THEN Ran(FALSE, <<>>, bot, max_id)
       ELSE IF got.raised THEN Ran(TRUE, steps, bot, max_id)
       ELSE IF got.ret.error_code = 0 /\ got.ret.news_count > 0
       THEN Delivered(steps, "send_crypto_news_message", bot,
                      got.max_sent_id, up.auth, up.latency, up.post)
       ELSE Ran(FALSE, steps, bot, got.max_sent_id)

\* the error_code get_market_fund_flow has to give: 0 today's data, 2 no
\* data for today, 1 a failure
FlowResults == {0, 1, 2}

\* the try block of send_market_flow_with_currency, lines 158-226.  The
\* read of config.FEISHU_CHAT_ID raises AttributeError; past it, the call
\* format_fund_flow_message(flow_result, market_result, vietnam_result)
\* passes one argument more than the method takes and raises TypeError.
send_market_flow_with_currency_body(e, bot, max_id, when, flow) ==
    LET steps == <<[call |-> "get_market_fund_flow", ok |-> flow = 0]>>
    IN IF when.weekday >= 5 THEN Ran(FALSE, <<>>, bot, max_id)
       ELSE IF config_get(e, "FEISHU_CHAT_ID").raised
       THEN Ran(TRUE, <<>>, bot, max_id)
       ELSE IF config_get(e, "FEISHU_CHAT_ID").value = ""
       THEN Ran(FALSE, <<>>, bot, max_id)
       ELSE Ran(flow = 0, steps, bot, max_id)

\* Faulty variant: the handler has no except clause.
Handler_NoExcept(body) ==
    [raised |-> body.raised, escaped |-> body.raised, steps |-> body.steps,
     reqs |-> body.reqs, access_token |-> body.access_token,
     token_expires_at |-> body.token_expires_at, now |-> body.now,
     max_sent_id |-> body.max_sent_id]

\* with app.app_context(): try: <body> except Exception as e: log it
Handler(body) ==
    [raised |-> body.raised, escaped |-> FALSE, steps |-> body.steps,
     reqs |-> body.reqs, access_token |-> body.access_token,
     token_expires_at |-> body.token_expires_at, now |-> body.now,
     max_sent_id |-> body.max_sent_id]

\* the handlers registered under an id, in the order of the store
Registered(store, id) ==
    SelectSeq(store, LAMBDA j : j.id = id)

\* one run of a handler that ends in h, triggered for the job id; at is the
\* time the run read from the clock (for the market job, with what the
\* fund-flow source had to give) and ids are the news ids it got
Ran_Job(id, func, at, ids, h) ==
    /\ h.now <= MaxClock
    /\ access_token' = h.access_token
    /\ token_expires_at' = h.token_expires_at
    /\ clock' = h.now
    /\ max_sent_id' = h.max_sent_id
    /\ returned_ids' = returned_ids \cup ids
    /\ last' = [op |-> "job", id |-> id, func |-> func, at |-> at,
                ids |-> ids, registered |-> Registered(jobs, id),
                raised |-> h.raised, escaped |-> h.escaped,
                steps |-> h.steps, reqs |-> h.reqs]
    /\ UNCHANGED <<sideTables, batchVars, cacheVars, news_data, pc, running, jobs, refresh, env,
                   daily_cache, workers, crypto_calls, adviceVars>>

\* the trigger of a job fires: the scheduler's worker thread calls the
\* handler registered under the id; whatever the call ends in, the job stays
\* in the store for its next trigger
run_send_daily_news_to_feishu(id) ==
    /\ running
    /\ \E i \in 1..Len(jobs) :
          jobs[i].id = id /\ jobs[i].func = "send_daily_news_to_feishu"
    /\ \E client_ok \in Inputs(env.FEISHU_CHAT_ID # "", BOOLEAN) :
       \E replies \in Inputs(env.FEISHU_CHAT_ID # "" /\ client_ok,
                             JobNewsReplies) :
       \E news \in {IF env.FEISHU_CHAT_ID # "" /\ client_ok
                    THEN NewsIntegrationAPI_fetch_all_news(replies)
                    ELSE <<>>} :
       \E llm \in Inputs(CollectItems(news, 1) # <<>>, LLMReplies) :
       \E sends \in {/\ CollectItems(news, 1) # <<>>
                     /\ NewsIntegrationAPI_integrate_news_with_glm4(
                            news, llm).ret.error_code = 0} :
       \E auth \in Inputs(sends /\ ~FeishuBot_token_valid(
                              access_token, token_expires_at, clock),
                          JobAuthReplies) :
       \E latency \in Inputs(sends /\ ~FeishuBot_token_valid(
                                 access_token, token_expires_at, clock),
                             JobAuthLatencies) :
       \E post \in Inputs(sends, PostReplies) :
           Ran_Job(id, "send_daily_news_to_feishu", None, {},
                   Handler(send_daily_news_to_feishu_body(
                       env, BotState, max_sent_id,
                       [client_ok |-> client_ok, replies |-> replies,
                        llm |-> llm, auth |-> auth, latency |-> latency,
                        post |-> post])))

run_send_crypto_news_to_feishu(id) ==
    /\ running
    /\ \E i \in 1..Len(jobs) :
          jobs[i].id = id /\ jobs[i].func = "send_crypto_news_to_feishu"
    /\ \E when \in FireTimes :
       \E reads \in {/\ when.weekday < 5 /\ InWorkHours(when)
                     /\ env.FEISHU_CHAT_ID_COIN # ""} :
       \E reply \in Inputs(reads, CryptoReplies) :
       \E got \in {CryptoNewsAPI_get_new_crypto_news(max_sent_id, reply)} :
       \E sends \in {reads /\ ~got.raised /\ got.ret.news_count > 0} :
       \E auth \in Inputs(sends /\ ~FeishuBot_token_valid(
                              access_token, token_expires_at, clock),
                          JobAuthReplies) :
       \E latency \in Inputs(sends /\ ~FeishuBot_token_valid(
                                 access_token, token_expires_at, clock),
                             JobAuthLatencies) :
       \E post \in Inputs(sends, PostReplies) :
           Ran_Job(id, "send_crypto_news_to_feishu", when,
                   IF reads /\ ~got.raised THEN Ids(got.ret.news) ELSE {},
                   Handler(send_crypto_news_to_feishu_body(
                       env, BotState, max_sent_id, when,
                       [reply |-> reply, auth |-> auth, latency |-> latency,
                        post |-> post])))

run_send_market_flow_with_currency(id) ==
    /\ running
    /\ \E i \in 1..Len(jobs) :
          jobs[i].id = id /\ jobs[i].func = "send_market_flow_with_currency"
    /\ \E when \in FireTimes, flow \in FlowResults :
           Ran_Job(id, "send_market_flow_with_currency",
                   [weekday |-> when.weekday, minutes |-> when.minutes,
                    flow |-> flow], {},
                   Handler(send_market_flow_with_currency_body(
                       env, BotState, max_sent_id, when, flow)))

\* any registered job's trigger fires
run_job ==
    /\ \E id \in JobIds :
           \/ run_send_daily_news_to_feishu(id)
           \/ run_send_crypto_news_to_feishu(id)
           \/ run_send_market_flow_with_currency(id)

-----------------------------------------------------------------------------
(* FeishuBot.send_news_message and send_crypto_news_message: the card      *)
(* builders and the delivery of the card they return.                      *)

\* the cards show at most this many news items
CardLimit == 10

\* the news_data a caller can pass: data is a dict, a list or absent;
\* news_list (in data) is a list, None or absent; items are the Python
\* types of the list's elements
NewsCardInputs ==
    {[data |-> "dict", news_list |-> "list", items |-> its] :
        its \in {<<>>, <<"dict">>, <<"dict", "dict">>, <<"dict", "str">>}}
    \cup {[data |-> "dict", news_list |-> nl, items |-> <<>>] :
            nl \in {"none", "absent"}}
    \cup {[data |-> d, news_list |-> "absent", items |-> <<>>] :
            d \in {"list", "absent"}}

\* the statements of a card builder's try block that raise on news_data:
\* .get on a list (data), len()/slicing of None (news_list), .get on a str
\* (an item among the first CardLimit)
CardBuildRaises(nd) ==
    \/ nd.data = "list"
    \/ nd.data = "dict" /\ nd.news_list = "none"
    \/ \E i \in 1..Len(nd.items) :
          i <= CardLimit /\ nd.items[i] # "dict"

\* the card either builder returns: the card over the first CardLimit items,
\* or, from its except clause, the minimal error card
Card(title, nd) ==
    IF CardBuildRaises(nd)
    THEN [raised |-> FALSE, card |-> [title |-> title, error |-> TRUE,
                                      items |-> 0]]
    ELSE [raised |-> FALSE,
          card |-> [title |-> title, error |-> FALSE,
                    items |-> IF Len(nd.items) <= CardLimit
                              THEN Len(nd.items) ELSE CardLimit]]

\* Faulty variant: the builder has no except clause.
FeishuBot_create_news_interactive_message_NoFallback(nd) ==
    IF CardBuildRaises(nd)
    THEN [raised |-> TRUE, card |-> None]
    ELSE Card("news", nd)

\* FeishuBot.create_news_interactive_message: [raised, card]
FeishuBot_create_news_interactive_message(nd) ==
    Card("news", nd)

\* FeishuBot.create_crypto_news_interactive_message: [raised, card]
FeishuBot_create_crypto_news_interactive_message(nd) ==
    Card("crypto", nd)

\* the body shared by send_news_message and send_crypto_news_message: the
\* card c is built, then handed to send_interactive_message; an exception of
\* either step ends in 'return False'
SendCard(op, nd, c) ==
    IF c.raised
    THEN /\ last' = [op |-> op, news_data |-> nd, raised |-> FALSE,
                     content |-> None, reqs |-> <<>>, ret |-> FALSE]
         /\ UNCHANGED <<cacheVars, otherVars>>
    ELSE
    \E auth \in Inputs(~FeishuBot_token_valid(access_token, token_expires_at,
                                              clock), JobAuthReplies) :
    \E latency \in Inputs(~FeishuBot_token_valid(access_token,
                                                 token_expires_at, clock),
                          JobAuthLatencies) :
    \E t \in {FeishuBot_get_access_token(access_token, token_expires_at,
                                         clock, auth, latency)} :
    \E post \in Inputs(t.ret # "", PostReplies) :
    \E s \in {FeishuBot_send("interactive", access_token, token_expires_at,
                             clock, auth, latency, post)} :
        /\ s.now <= MaxClock
        /\ access_token' = s.access_token
        /\ token_expires_at' = s.token_expires_at
        /\ clock' = s.now
        /\ last' = [op |-> op, news_data |-> nd, raised |-> FALSE,
                    content |-> c.card, reqs |-> s.reqs, ret |-> s.ret]
        /\ UNCHANGED <<cacheVars, news_data, schedVars, sideTables, batchVars, callVars>>

send_news_message ==
    /\ \E nd \in NewsCardInputs :
           SendCard("send_news_message", nd,
                    FeishuBot_create_news_interactive_message(nd))

send_crypto_news_message ==
    /\ \E nd \in NewsCardInputs :
           SendCard("send_crypto_news_message", nd,
                    FeishuBot_create_crypto_news_interactive_message(nd))

-----------------------------------------------------------------------------
(* solar_terms_api.get_cached_daily_advice and the startup refresh *)

\* what one composition of the daily advice can meet upstream
RefreshUpstreams ==
    {[solar |-> "v1", almanac |-> Replied([error_code |-> 0,
                                            reason |-> "successed",
                                            result |-> "almanacA"]),
      holiday |-> Raised, llm |-> l] :
        l \in {[kind |-> "raises"],
               [kind |-> "content", content |-> "advice json"],
               [kind |-> "content", content |-> "not json"]}}
    \cup {[solar |-> "raises", almanac |-> Raised, holiday |-> Raised,
           llm |-> [kind |-> "raises"]]}

\* [ret, cache, fetched]: the module-level cache entry serves its date;
\* otherwise the advice is composed and kept if it succeeded
get_cached_daily_advice(entry, query_date, result) ==
    IF entry # None /\ entry.date = query_date
    THEN [ret |-> entry.data, cache |-> entry, fetched |-> 0]
    ELSE IF result.error_code = 0
    THEN [ret |-> result, cache |-> [date |-> query_date, data |-> result],
          fetched |-> 1]
    ELSE [ret |-> None, cache |-> entry, fetched |-> 1]

\* one call of get_cached_daily_advice(get_current_date()) by the thread who
CachedDailyAdvice(who) ==
    /\ \E date_str \in Dates :
       \E hit \in {daily_cache # None /\ daily_cache.date = date_str} :
       \E up \in Inputs(~hit, RefreshUpstreams) :
       \E s \in {SolarTermsQuery_get_current_solar_term(
                      solar_terms_cache, date_str, up.solar)} :
       \E a \in {AlmanacQuery_query_almanac(almanac_cache, date_str,
                                            up.almanac)} :
       \E h \in {HolidayQuery_query_today(holiday_cache, date_str,
                                          up.holiday)} :
       \E c \in {GLM4Query_compose(s.ret, a.ret, up.llm)} :
       \E g \in {get_cached_daily_advice(daily_cache, date_str, c.ret)} :
           /\ solar_terms_cache' = IF hit THEN solar_terms_cache ELSE s.cache
           /\ almanac_cache' = IF hit THEN almanac_cache ELSE a.cache
           /\ holiday_cache' = IF hit THEN holiday_cache ELSE h.cache
           /\ daily_cache' = g.cache
           /\ last' = [op |-> "get_cached_daily_advice", who |-> who,
                       key |-> date_str, fetched |-> g.fetched,
                       ok |-> g.ret # None]

\* run_fetch_daily_advice_async on its daemon thread: fetch_daily_advice()
\* logs the outcome of get_cached_daily_advice and ends
refresh_run ==
    /\ refresh.finished < refresh.started
    /\ CachedDailyAdvice("refresh")
    /\ refresh' = [refresh EXCEPT !.finished = @ + 1]
    /\ UNCHANGED <<sideTables, batchVars, callVars, botVars, news_data, pc, running, jobs, env, max_sent_id,
                   workers>>

\* GET /daily_advice on a request thread once the app serves: the route
\* answers from get_cached_daily_advice(get_current_date())
api_daily_advice ==
    /\ pc = "returned"
    /\ CachedDailyAdvice("request")
    /\ UNCHANGED <<sideTables, batchVars, callVars, botVars, news_data, pc, running, jobs, refresh,
                   env, max_sent_id, workers>>

\* the threads that call get_cached_daily_advice: the startup refresh thread
\* in fetch_daily_advice and a request thread of /daily_advice
AdviceThreads == {"refresh", "request"}

\* the outcomes of glm4.get_daily_advice(): the envelope's error_code, and
\* the date the compose read from datetime.now() and worked with (for)
ComposeResults(date) ==
    {[error_code |-> 0, for |-> date], [error_code |-> -1, for |-> date]}

\* the day ends
date_changes ==
    /\ wall_date = <<2024, 2, 5>>
    /\ wall_date' = <<2024, 2, 6>>
    /\ UNCHANGED <<cacheVars, botVars, news_data, schedVars, sideTables,
                   batchVars, returned_ids, crypto_calls, advice_calls, last>>

\* the caller reads query_date = get_current_date() and calls
\* get_cached_daily_advice(query_date)
advice_call(t) ==
    /\ advice_calls[t].at = "idle"
    /\ advice_calls' = [advice_calls EXCEPT ![t] =
                           [at |-> "called", query_date |-> wall_date]]
    /\ UNCHANGED <<cacheVars, botVars, news_data, schedVars, sideTables,
                   batchVars, returned_ids, crypto_calls, wall_date, last>>

\* lines 72-73: the entry is served when its date is query_date and its data
\* is truthy
advice_check(t) ==
    /\ advice_calls[t].at = "called"
    /\ advice_calls' = [advice_calls EXCEPT ![t] =
           IF /\ daily_cache # None
              /\ daily_cache.date = advice_calls[t].query_date
              /\ daily_cache.data # None
           THEN [at |-> "returned",
                 query_date |-> advice_calls[t].query_date,
                 ret |-> daily_cache.data]
           ELSE [at |-> "composing",
                 query_date |-> advice_calls[t].query_date]]
    /\ UNCHANGED <<cacheVars, botVars, news_data, schedVars, sideTables,
                   batchVars, returned_ids, crypto_calls, wall_date, last>>

\* lines 77-78 and 83: glm4.get_daily_advice() composes for the date it reads
\* itself; a failure is returned as None
advice_compose(t) ==
    /\ advice_calls[t].at = "composing"
    /\ \E result \in ComposeResults(wall_date) :
          advice_calls' = [advice_calls EXCEPT ![t] =
              IF result.error_code = 0
              THEN [at |-> "composed",
                    query_date |-> advice_calls[t].query_date,
                    result |-> result]
              ELSE [at |-> "returned",
                    query_date |-> advice_calls[t].query_date,
                    ret |-> None]]
    /\ UNCHANGED <<cacheVars, botVars, news_data, schedVars, sideTables,
                   batchVars, returned_ids, crypto_calls, wall_date, last>>

\* line 79: cache['daily_advice']['date'] = query_date
advice_store_date(t) ==
    /\ advice_calls[t].at = "composed"
    /\ daily_cache' = [date |-> advice_calls[t].query_date,
                       data |-> IF daily_cache = None THEN None
                                ELSE daily_cache.data]
    /\ advice_calls' = [advice_calls EXCEPT ![t].at = "date_stored"]
    /\ UNCHANGED <<cacheVars, botVars, news_data, pc, running, jobs, refresh,
                   env, max_sent_id, workers, sideTables, batchVars,
                   returned_ids, crypto_calls, wall_date, last>>

\* lines 80-81: cache['daily_advice']['data'] = result; return result
advice_store_data(t) ==
    /\ advice_calls[t].at = "date_stored"
    /\ daily_cache' = [daily_cache EXCEPT !.data = advice_calls[t].result]
    /\ advice_calls' = [advice_calls EXCEPT ![t] =
                           [at |-> "returned",
                            query_date |-> advice_calls[t].query_date,
                            ret |-> advice_calls[t].result]]
    /\ UNCHANGED <<cacheVars, botVars, news_data, pc, running, jobs, refresh,
                   env, max_sent_id, workers, sideTables, batchVars,
                   returned_ids, crypto_calls, wall_date, last>>

\* the next request to /daily_advice
advice_next_request ==
    /\ advice_calls["request"].at = "returned"
    /\ advice_calls' = [advice_calls EXCEPT !["request"] = [at |-> "idle"]]
    /\ UNCHANGED <<cacheVars, botVars, news_data, schedVars, sideTables,
                   batchVars, returned_ids, crypto_calls, wall_date, last>>

-----------------------------------------------------------------------------
(* Explanation enrichment: the /almanac_explanation endpoint and the batch *)
(* worker of AlmanacQuery.start_batch_explanation.  Each runs on a thread  *)
(* of its own; a step is one date's lookup or one (field, value) pair.     *)

\* threads that ever work on explanations
MaxExplainers == 2

\* calls of start_batch_explanation, each of which starts a worker
MaxBatches == 1

\* the (field_name, value) pairs of an almanac result, in the order of the
\* fields list and of field_value.split()
FieldValues(result) ==
    IF result = "almanacA"
    THEN <<[field_name |-> "yi", field_value |-> "jisi"],
           [field_name |-> "ji", field_value |-> "dongtu"]>>
    ELSE <<[field_name |-> "yi", field_value |-> "jisi"]>>

\* what glm.chat(prompt) gives: an exception, or the reply's text
ChatOutcomes ==
    {[raised |-> TRUE, ret |-> ""]}
    \cup {[raised |-> FALSE, ret |-> s] : s \in {"", "json"}}

\* the pairs for which the table holds a non-empty explanation
Explained(tbl) ==
    {[field_name |-> r.field_name, field_value |-> r.field_value] :
        r \in {x \in tbl : x.explanation # ""}}

\* AlmanacQuery.get_almanac_explanation, as its callers read it: the pairs
\* of field_values with a non-empty cached explanation; {} when the SELECT
\* fails
AlmanacQuery_get_almanac_explanation(tbl, field_values, db_ok) ==
    IF db_ok
    THEN {field_values[i] : i \in 1..Len(field_values)} \cap Explained(tbl)
    ELSE {}

\* INSERT OR REPLACE under UNIQUE(field_name, field_value)
AlmanacQuery_save_almanac_explanation(tbl, pair, explanation) ==
    {r \in tbl : ~(/\ r.field_name = pair.field_name
                   /\ r.field_value = pair.field_value)}
        \cup {[field_name |-> pair.field_name,
               field_value |-> pair.field_value,
               explanation |-> explanation]}

RECURSIVE SortDates(_)
\* ORDER BY date
SortDates(S) ==
    IF S = {} THEN <<>>
    ELSE LET d == CHOOSE d \in S : \A e \in S : DateLE(d, e)
         IN <<d>> \o SortDates(S \ {d})

\* AlmanacQuery.get_all_almanac_dates: [] when the SELECT fails
AlmanacQuery_get_all_almanac_dates(tbl, start_date, db_ok) ==
    IF ~db_ok THEN <<>>
    ELSE SortDates({r.date : r \in {x \in tbl :
                        start_date = NoDate \/ DateLE(start_date, x.date)}})

\* a thread at the start of a date's pass: query_almanac has answered r and
\* the cached explanations have been read
PassBegun(th, date, r, db_ok) ==
    IF r.ret.error_code # 0
    THEN IF th.kind = "worker"
         THEN [th EXCEPT !.pc = "next", !.processed = Append(@, date),
                         !.failed = @ \cup {date}]
         ELSE [th EXCEPT !.pc = "done", !.processed = Append(@, date),
                         !.failed = @ \cup {date}]
    ELSE [th EXCEPT
            !.pc = "pairs", !.date = date,
            !.todo = FieldValues(r.ret.result),
            !.snapshot = AlmanacQuery_get_almanac_explanation(
                            almanac_explanation_cache,
                            FieldValues(r.ret.result), db_ok),
            !.held = {FieldValues(r.ret.result)[i] :
                        i \in 1..Len(FieldValues(r.ret.result))}
                     \cap Explained(almanac_explanation_cache)]

\* Faulty variant: an exception inside a pass ends the worker.
PairDone_StopsOnFailure(th, abort) ==
    IF abort \/ Len(th.todo) = 1
    THEN [th EXCEPT !.pc = IF th.kind = "worker" /\ ~abort
                           THEN "next" ELSE "done",
                    !.date = NoDate, !.todo = <<>>,
                    !.snapshot = {}, !.held = {},
                    !.processed = Append(@, th.date),
                    !.failed = IF abort THEN @ \cup {th.date} ELSE @]
    ELSE [th EXCEPT !.todo = Tail(@)]

\* a thread after its current pair; abort is an exception inside the pass.
\* At the end of a pass its locals are gone.
PairDone(th, abort) ==
    IF abort \/ Len(th.todo) = 1
    THEN [th EXCEPT !.pc = IF th.kind = "worker" THEN "next" ELSE "done",
                    !.date = NoDate, !.todo = <<>>,
                    !.snapshot = {}, !.held = {},
                    !.processed = Append(@, th.date),
                    !.failed = IF abort THEN @ \cup {th.date} ELSE @]
    ELSE [th EXCEPT !.todo = Tail(@)]

\* GET /almanac_explanation?date=...: the request thread up to the read of
\* the cached explanations (500 when the almanac is not to be had)
almanac_explanation ==
    /\ \E date \in Dates, db_ok \in BOOLEAN :
       \E reply \in Inputs({r \in almanac_cache : r.date = date} = {},
                           AlmanacReplies) :
       \E r \in {AlmanacQuery_query_almanac(almanac_cache, date, reply)} :
           /\ Len(explainers) < MaxExplainers
           /\ almanac_cache' = r.cache
           /\ explainers' =
                  Append(explainers,
                         PassBegun([kind |-> "request", pc |-> "begin",
                                    date |-> NoDate, todo |-> <<>>,
                                    snapshot |-> {}, held |-> {},
                                    enqueued |-> <<>>, processed |-> <<>>,
                                    failed |-> {}],
                                   date, r, db_ok))
           /\ last' = [op |-> "almanac_explanation", date |-> date,
                       ok |-> r.ret.error_code = 0]
           /\ UNCHANGED <<holiday_cache, solar_terms_cache, botVars, news_data,
                          schedVars, sideTables, date_queue, callVars>>

\* lines 390-411 of start_batch_explanation with the dates found: the queue
\* is emptied and filled with them, and a new worker thread is started
BatchStarted(dates) ==
    /\ IF dates = <<>>
       THEN /\ last' = [op |-> "start_batch_explanation", code |-> -1,
                        total_dates |-> 0]
            /\ UNCHANGED batchVars
       ELSE /\ date_queue' = dates
            /\ explainers' =
                   Append(explainers,
                          [kind |-> "worker", pc |-> "next",
                           date |-> NoDate, todo |-> <<>>,
                           snapshot |-> {}, held |-> {},
                           enqueued |-> dates, processed |-> <<>>,
                           failed |-> {}])
            /\ last' = [op |-> "start_batch_explanation", code |-> 0,
                        total_dates |-> Len(dates)]
    /\ UNCHANGED <<cacheVars, botVars, news_data, schedVars, sideTables,
                   callVars>>

\* AlmanacQuery.start_batch_explanation, for the first MaxBatches calls
start_batch_explanation ==
    /\ \E start_date \in Dates \cup {NoDate}, db_ok \in BOOLEAN :
       \E dates \in {AlmanacQuery_get_all_almanac_dates(almanac_cache,
                                                        start_date, db_ok)} :
           /\ Len(explainers) < MaxExplainers
           /\ Cardinality({i \in 1..Len(explainers) :
                               explainers[i].kind = "worker"}) < MaxBatches
           /\ BatchStarted(dates)

\* AlmanacQuery.start_batch_explanation called again while a worker of an
\* earlier call is still at work
start_batch_explanation_again ==
    /\ \E start_date \in Dates \cup {NoDate}, db_ok \in BOOLEAN :
       \E dates \in {AlmanacQuery_get_all_almanac_dates(almanac_cache,
                                                        start_date, db_ok)} :
           /\ Len(explainers) < MaxExplainers
           /\ \E i \in 1..Len(explainers) :
                 explainers[i].kind = "worker" /\ explainers[i].pc # "done"
           /\ BatchStarted(dates)

\* process_explanations, the loop's head 'while not date_queue.empty()':
\* the worker leaves when the queue is empty, else goes on to the get
process_explanations_next(i) ==
    /\ i \in 1..Len(explainers)
    /\ explainers[i].kind = "worker" /\ explainers[i].pc = "next"
    /\ explainers' = [explainers EXCEPT
                         ![i].pc = IF date_queue = <<>> THEN "done"
                                   ELSE "get"]
    /\ last' = [op |-> IF date_queue = <<>> THEN "process_explanations_exit"
                       ELSE "process_explanations_next", who |-> i]
    /\ UNCHANGED <<cacheVars, date_queue, botVars, news_data, schedVars,
                   sideTables, callVars>>

\* 'date = date_queue.get()' and the lookup of the date: Queue.get() blocks
\* while the queue is empty
process_explanations_get(i) ==
    /\ i \in 1..Len(explainers)
    /\ explainers[i].kind = "worker" /\ explainers[i].pc = "get"
    /\ date_queue # <<>>
    /\ \E db_ok \in BOOLEAN :
       \E reply \in Inputs({r \in almanac_cache :
                               r.date = Head(date_queue)} = {},
                           AlmanacReplies) :
       \E r \in {AlmanacQuery_query_almanac(almanac_cache,
                                            Head(date_queue), reply)} :
           /\ date_queue' = Tail(date_queue)
           /\ almanac_cache' = r.cache
           /\ explainers' =
                  [explainers EXCEPT
                     ![i] = PassBegun(@, Head(date_queue), r, db_ok)]
           /\ last' = [op |-> "process_explanations_get", who |-> i,
                       date |-> Head(date_queue),
                       ok |-> r.ret.error_code = 0]
           /\ UNCHANGED <<holiday_cache, solar_terms_cache>>
    /\ UNCHANGED <<botVars, news_data, schedVars, sideTables, callVars>>

\* one (field, value) pair of a pass: the LLM is asked unless the
\* explanations read at the start of the pass hold the pair.  The worker
\* saves the answer of a JSON reply; the endpoint saves the reply's text.
explain(i) ==
    /\ i \in 1..Len(explainers)
    /\ explainers[i].pc = "pairs"
    /\ LET th == explainers[i]
           pair == Head(th.todo)
       IN IF pair \in th.snapshot
          THEN /\ explainers' = [explainers EXCEPT ![i] = PairDone(th, FALSE)]
               /\ last' = [op |-> "explain", who |-> i, pair |-> pair,
                           asked |-> FALSE, held_now |-> TRUE,
                           held_at_start |-> TRUE, saved |-> FALSE]
               /\ UNCHANGED almanac_explanation_cache
          ELSE \E out \in ChatOutcomes :
               \E db_ok \in Inputs(/\ ~out.raised
                                   /\ th.kind = "worker" => out.ret = "json",
                                   BOOLEAN) :
               LET saves == /\ ~out.raised
                            /\ th.kind = "worker" => out.ret = "json"
                   text == IF th.kind = "worker" THEN "e1" ELSE out.ret
               IN /\ almanac_explanation_cache' =
                         IF saves /\ db_ok
                         THEN AlmanacQuery_save_almanac_explanation(
                                  almanac_explanation_cache, pair, text)
                         ELSE almanac_explanation_cache
                  /\ explainers' =
                         [explainers EXCEPT
                            ![i] = PairDone(th, out.raised
                                                \/ (saves /\ ~db_ok))]
                  /\ last' = [op |-> "explain", who |-> i, pair |-> pair,
                              asked |-> TRUE,
                              held_now |->
                                  pair \in Explained(
                                              almanac_explanation_cache),
                              held_at_start |-> pair \in th.held,
                              saved |-> saves /\ db_ok]
    /\ UNCHANGED <<cacheVars, botVars, news_data, schedVars,
                   seasonal_food_cache, date_queue, callVars>>

-----------------------------------------------------------------------------
(* The service *)

\* the state once the modules are imported, with the main thread at p and
\* the environment e
InitState(p, e) ==
    /\ almanac_cache = {}
    /\ holiday_cache = {}
    /\ solar_terms_cache = <<>>
    /\ access_token = ""
    /\ token_expires_at = None
    /\ clock = 0
    /\ news_data = None
    /\ pc = p
    /\ running = FALSE
    /\ jobs = <<>>
    /\ refresh = [started |-> 0, finished |-> 0]
    /\ env = e
    /\ max_sent_id = 0
    /\ daily_cache = None
    /\ workers = <<>>
    /\ almanac_explanation_cache = {}
    /\ seasonal_food_cache = {}
    /\ date_queue = <<>>
    /\ explainers = <<>>
    /\ returned_ids = {}
    /\ crypto_calls = [c \in {"job", "endpoint"} |-> [at |-> "idle"]]
    /\ wall_date = <<2024, 2, 5>>
    /\ advice_calls = [t \in {"refresh", "request"} |-> [at |-> "idle"]]
    /\ last = [op |-> "init"]

Init == InitState("app_startup", FullEnv)

\* the three cached domain query clients
Next ==
    \/ query_almanac
    \/ query_today
    \/ query

Spec == Init /\ [][Next]_vars

\* the cache tables under direct reads and writes
NextCache ==
    \/ almanac_save_to_cache
    \/ almanac_get_from_cache
    \/ holiday_save_to_cache
    \/ holiday_get_from_cache
    \/ solar_save_to_cache
    \/ solar_get_from_cache

SpecCache == Init /\ [][NextCache]_vars

\* the daily-advice aggregator over its three cached clients
NextAdvice ==
    \/ get_daily_advice

SpecAdvice == Init /\ [][NextAdvice]_vars

\* the news aggregator
NextNews ==
    \/ fetch_all_news
    \/ integrate_news_with_glm4

SpecNews == Init /\ [][NextNews]_vars

\* Both aggregators.  They share no state (the advice aggregator touches the
\* three cache tables, the news aggregator only news_data), so each is
\* followed from the initial state on its own rather than interleaved.
NextAgg ==
    \/ last.op \in {"init", "get_daily_advice"} /\ get_daily_advice
    \/ last.op \in {"init", "fetch_all_news", "integrate_news_with_glm4"}
          /\ fetch_all_news
    \/ last.op \in {"fetch_all_news", "integrate_news_with_glm4"}
          /\ integrate_news_with_glm4

SpecAgg == Init /\ [][NextAgg]_vars

\* the Feishu bot under the passage of time
NextBot ==
    \/ send_message
    \/ send_text_message
    \/ send_interactive_message
    \/ Tick

SpecBot == Init /\ [][NextBot]_vars

\* the explanation endpoint and the batch worker, over a cache that the
\* almanac client has filled beforehand
NextExplain ==
    \/ explainers = <<>> /\ query_almanac
    \/ almanac_explanation
    \/ start_batch_explanation
    \/ \E i \in 1..MaxExplainers : process_explanations_next(i)
    \/ \E i \in 1..MaxExplainers : process_explanations_get(i)
    \/ \E i \in 1..MaxExplainers : explain(i)

SpecExplain == Init /\ [][NextExplain]_vars

\* the batch worker on its own
NextBatch ==
    \/ explainers = <<>> /\ query_almanac
    \/ start_batch_explanation
    \/ \E i \in 1..MaxExplainers : process_explanations_next(i)
    \/ \E i \in 1..MaxExplainers : process_explanations_get(i)
    \/ \E i \in 1..MaxExplainers : explain(i)

SpecBatch == Init /\ [][NextBatch]_vars

\* every started thread keeps running: the LLM and the almanac API answer
\* or time out
FairBatch ==
    \A i \in 1..MaxExplainers :
        /\ WF_vars(process_explanations_next(i))
        /\ WF_vars(process_explanations_get(i))
        /\ WF_vars(explain(i))

SpecBatchLive == SpecBatch /\ FairBatch

\* the batch worker with further calls of start_batch_explanation while a
\* worker is at work
NextBatchAgain ==
    \/ explainers = <<>> /\ query_almanac
    \/ start_batch_explanation
    \/ start_batch_explanation_again
    \/ \E i \in 1..MaxExplainers : process_explanations_next(i)
    \/ \E i \in 1..MaxExplainers : process_explanations_get(i)
    \/ \E i \in 1..MaxExplainers : explain(i)

SpecBatchAgain == Init /\ [][NextBatchAgain]_vars /\ FairBatch

\* repeated calls of query_next_n_days over an almanac cache that starts
\* empty
NextDays ==
    \/ query_next_n_days

SpecNextDays == Init /\ [][NextDays]_vars

\* app.py is imported, or init_scheduler(app) is called with a Flask app,
\* under any setting of the three keys
InitSched ==
    \E p \in {"app_startup", "init_scheduler"} : \E e \in Envs :
        InitState(p, e)

\* the startup on the main thread, the refresh thread and the scheduler's
\* worker threads
NextSched ==
    \/ app_startup
    \/ init_scheduler_add_jobs
    \/ scheduler_start
    \/ thread_start
    \/ init_scheduler_return
    \/ refresh_run
    \/ run_job

SpecSched == InitSched /\ [][NextSched]_vars

\* the job store under registrations after init_scheduler's own
NextJobs ==
    \/ init_scheduler_add_jobs
    \/ scheduler_start
    \/ thread_start
    \/ init_scheduler_return
    \/ add_job_again
    \/ run_job

SpecJobs == InitState("init_scheduler", FullEnv) /\ [][NextJobs]_vars

\* the refresh thread beside the request threads of /daily_advice
NextServe ==
    \/ app_startup
    \/ init_scheduler_add_jobs
    \/ scheduler_start
    \/ thread_start
    \/ init_scheduler_return
    \/ refresh_run
    \/ api_daily_advice

SpecServe == InitSched /\ [][NextServe]_vars

\* request threads inside query_almanac, step by step
NextRace ==
    \/ query_almanac_begin
    \/ query_almanac_fetch
    \/ query_almanac_save

SpecRace == Init /\ [][NextRace]_vars

\* the cache operations of every table over a database that can fail
NextStore ==
    \/ get_from_cache
    \/ save_to_cache
    \/ save_almanac_explanation
    \/ save_seasonal_food

SpecStore == Init /\ [][NextStore]_vars

\* the helper methods called on their own
NextCalls ==
    \/ fetch_news_from_source
    \/ get_current_solar_term
    \/ chat
    \/ get_all_market_data
    \/ send_news_message
    \/ send_crypto_news_message
    \/ get_new_crypto_news



SpecCalls == Init /\ [][NextCalls]_vars

\* SolarTermsQuery.query and get_current_solar_term on the same table
NextSolar ==
    \/ query
    \/ get_current_solar_term

SpecSolar == Init /\ [][NextSolar]_vars

\* the crypto job and the test endpoint inside get_new_crypto_news, step by
\* step
NextCryptoRace ==
    \/ \E c \in Callers : crypto_fetch(c)
    \/ \E c \in Callers : crypto_filter(c)
    \/ \E c \in Callers : crypto_update(c)
    \/ crypto_next_round

SpecCryptoRace == Init /\ [][NextCryptoRace]_vars

\* the refresh thread and a request thread inside get_cached_daily_advice,
\* step by step, across a change of date
NextAdviceRace ==
    \/ date_changes
    \/ \E t \in AdviceThreads : advice_call(t)
    \/ \E t \in AdviceThreads : advice_check(t)
    \/ \E t \in AdviceThreads : advice_compose(t)
    \/ \E t \in AdviceThreads : advice_store_date(t)
    \/ \E t \in AdviceThreads : advice_store_data(t)
    \/ advice_next_request

SpecAdviceRace == Init /\ [][NextAdviceRace]_vars

-----------------------------------------------------------------------------
(* Properties of the cached query clients *)

AlmanacRows(tbl, date) == {r \in tbl : r.date = date}

HolidayRows(tbl, date) == {r \in tbl : r.date = date}

\* the decoded raw_data blobs of a sequence of rows
Decoded(rows) == [i \in 1..Len(rows) |-> rows[i].raw_data.json]

FailedReply(up) == up.raises \/ up.json.error_code # 0

\* C1: a query whose lookup key already has a cache entry makes no outbound
\* HTTP request, returns the cached payload with error_code 0 and leaves the
\* cache as it was (almanac, holiday, solar terms); two successive warm
\* calls for the same key return the same envelope.
C1_WarmCacheServesWithoutRequest ==
    [][ /\ (last'.op = "query_almanac"
            /\ AlmanacRows(almanac_cache, last'.key) # {})
           => /\ last'.http = 0
              /\ \E r \in almanac_cache :
                    r.date = last'.key /\ last'.ret = r.raw_data.json
              /\ last'.ret.error_code = 0
              /\ UNCHANGED cacheVars
        /\ (last'.op = "query_today"
            /\ HolidayRows(holiday_cache, last'.key) # {})
           => /\ last'.http = 0
              /\ \E r \in holiday_cache :
                    r.date = last'.key /\ last'.ret.result = r.raw_data.json
              /\ last'.ret.error_code = 0
              /\ UNCHANGED cacheVars
        /\ (last'.op = "query"
            /\ SolarRows(solar_terms_cache, last'.key[1], last'.key[2]) # <<>>)
           => /\ last'.http = 0
              /\ last'.ret.result =
                    Decoded(SolarRows(solar_terms_cache,
                                      last'.key[1], last'.key[2]))
              /\ last'.ret.error_code = 0
              /\ UNCHANGED cacheVars
        /\ (/\ last.op \in {"query_almanac", "query_today", "query"}
            /\ last'.op = last.op
            /\ last'.key = last.key
            /\ last.http = 0
            /\ last'.http = 0)
           => last'.ret = last.ret
      ]_vars

\* a warm holiday lookup has been served from the cache
C1_Witness ==
    /\ last.op = "query_today"
    /\ last.http = 0
    /\ last.ret.error_code = 0
    /\ HolidayRows(holiday_cache, last.key) # {}

\* C2: after a cache miss, an upstream reply that is not a success, or a
\* transport / JSON-decode error, gives an envelope with error_code # 0 and
\* no cache table is written.
C2_FailedFetchWritesNothing ==
    [][ (/\ last'.op \in {"query_almanac", "query_today", "query"}
         /\ last'.http > 0
         /\ FailedReply(last'.up))
        => /\ last'.ret.error_code # 0
           /\ UNCHANGED cacheVars
      ]_vars

\* a holiday lookup missed the cache and the provider answered with an error
C2_Witness ==
    /\ last.op = "query_today"
    /\ last.http = 1
    /\ ~last.up.raises
    /\ last.up.json.error_code # 0
    /\ last.ret.error_code # 0

\* C3: with no cache row for the date, query_almanac with a successful
\* upstream makes exactly one HTTP call, returns a success envelope and
\* leaves exactly one cache row for the date; the immediately following
\* query_almanac for that date makes no HTTP call and returns an envelope
\* identical to the first.
C3_MissThenHit ==
    [][ /\ (/\ last'.op = "query_almanac"
            /\ AlmanacRows(almanac_cache, last'.key) = {}
            /\ last'.http > 0
            /\ ~FailedReply(last'.up))
           => /\ last'.http = 1
              /\ last'.ret.error_code = 0
              /\ Cardinality(AlmanacRows(almanac_cache', last'.key)) = 1
        /\ (/\ last.op = "query_almanac"
            /\ last.http = 1
            /\ last.ret.error_code = 0
            /\ last'.op = "query_almanac"
            /\ last'.key = last.key)
           => /\ last'.http = 0
              /\ last'.ret = last.ret
      ]_vars

\* the second query for 2024-02-05 has been answered from the row the first
\* one wrote
C3_Witness ==
    /\ last.op = "query_almanac"
    /\ last.key = <<2024, 2, 5>>
    /\ last.http = 0
    /\ last.ret.error_code = 0
    /\ AlmanacRows(almanac_cache, <<2024, 2, 5>>) # {}

-----------------------------------------------------------------------------
(* Properties of the cache layer *)

\* no key has two rows
OneRowPerKey ==
    /\ \A r1, r2 \in almanac_cache : r1.date = r2.date => r1 = r2
    /\ \A r1, r2 \in holiday_cache : r1.date = r2.date => r1 = r2
    /\ \A i, j \in 1..Len(solar_terms_cache) :
          (/\ solar_terms_cache[i].pub_year = solar_terms_cache[j].pub_year
           /\ solar_terms_cache[i].name = solar_terms_cache[j].name) => i = j

\* what a read of every key returns
AlmanacView(tbl) == [d \in Dates |-> AlmanacQuery_get_from_cache(tbl, d)]

HolidayView(tbl) == [d \in Dates |-> HolidayQuery_get_from_cache(tbl, d)]

SolarView(tbl) ==
    [k \in Years \X TermNames |->
        SolarTermsQuery_get_from_cache(tbl, k[1], k[2])]

\* a write to the almanac or holiday table is read back unchanged and leaves
\* the other keys alone; a read changes nothing
PutGetAlmanacHoliday ==
    /\ last'.op = "almanac.save_to_cache"
       => /\ AlmanacQuery_get_from_cache(almanac_cache', last'.key) = last'.data
          /\ \A d \in Dates \ {last'.key} :
                AlmanacView(almanac_cache')[d] = AlmanacView(almanac_cache)[d]
    /\ last'.op = "holiday.save_to_cache"
       => /\ HolidayQuery_get_from_cache(holiday_cache', last'.key).result
                = last'.data
          /\ \A d \in Dates \ {last'.key} :
                HolidayView(holiday_cache')[d] = HolidayView(holiday_cache)[d]
    /\ last'.op \in {"almanac.get_from_cache", "holiday.get_from_cache",
                     "solar.get_from_cache"}
       => UNCHANGED cacheVars

\* a write to the solar-terms table leaves the other keys alone
PutSolarFrame ==
    last'.op = "solar.save_to_cache"
    => \A k \in (Years \X TermNames) \ {last'.key} :
          SolarView(solar_terms_cache')[k] = SolarView(solar_terms_cache)[k]

-----------------------------------------------------------------------------
(* Properties of the two aggregators *)

\* the envelopes of the sources that failed / that contribute an item
FailedSources(news) == {i \in 1..Len(news) : news[i].error_code # 0}

UsableSources(news) ==
    {i \in 1..Len(news) : news[i].error_code = 0 /\ news[i].data # <<>>}

\* the aggregator's call consumed an LLM reply that carried a text
GotContent ==
    /\ last.op \in {"get_daily_advice", "integrate_news_with_glm4"}
    /\ last.llm > 0
    /\ last.llm_up.kind = "content"

\* the keys the prompt of each aggregator asks the reply to have
ExpectedKeys(op) == IF op = "get_daily_advice" THEN AdviceKeys ELSE NewsKeys

\* C5: get_daily_advice is all-or-nothing: when the solar-term envelope or
\* the almanac envelope has error_code # 0, the call returns a failure
\* envelope and makes no LLM request.
C5_AdviceAllOrNothing ==
    (/\ last.op = "get_daily_advice"
     /\ \/ last.solar_result.error_code # 0
        \/ last.almanac_result.error_code # 0)
    => /\ last.ret.error_code # 0
       /\ last.llm = 0

\* the almanac request failed while the solar terms were obtained, and the
\* call gave up without asking the LLM
C5_Witness ==
    /\ last.op = "get_daily_advice"
    /\ last.solar_result.error_code = 0
    /\ last.almanac_result.error_code # 0
    /\ last.ret.error_code # 0
    /\ last.llm = 0

C7_UnparseableReplyReported ==
    (GotContent /\ ~JsonParse(last.llm_up.content).ok)
    => /\ last.ret.error_code # 0
       /\ last.ret.data = Str(last.llm_up.content)
       /\ last.llm = 1

\* the daily-advice call got "not json" back and reported it
C7_Witness ==
    /\ last.op = "get_daily_advice"
    /\ last.llm = 1
    /\ last.llm_up = [kind |-> "content", content |-> "not json"]
    /\ last.ret.error_code # 0
    /\ last.ret.data = Str("not json")

\* the news integration got "not json" back and reported it
C7_WitnessNews ==
    /\ last.op = "integrate_news_with_glm4"
    /\ last.llm = 1
    /\ last.llm_up = [kind |-> "content", content |-> "not json"]
    /\ last.ret.data = Str("not json")

\* C8 as stated: when the LLM's reply is valid JSON but lacks the keys of the
\* expected schema, the aggregator returns a failure envelope carrying the
\* raw text, never a success envelope.
C8_SchemaMissReportedAsFailure ==
    (/\ GotContent
     /\ JsonParse(last.llm_up.content).ok
     /\ ~(/\ JsonParse(last.llm_up.content).value.type = "object"
          /\ ExpectedKeys(last.op)
                 \subseteq JsonParse(last.llm_up.content).value.keys))
    => /\ last.ret.error_code # 0
       /\ last.ret.data = Str(last.llm_up.content)

-----------------------------------------------------------------------------
(* Properties of the Feishu bot's token *)

SendOps == {"send_message", "send_text_message", "send_interactive_message"}

AuthRequests(reqs) == {i \in 1..Len(reqs) : reqs[i].to = "auth"}

MessageRequests(reqs) == {i \in 1..Len(reqs) : reqs[i].to = "message"}

\* no token was cached when the call began, or its expiry was not ahead
ExpiredOrAbsent(b) ==
    \/ b.access_token = ""
    \/ b.token_expires_at = None
    \/ b.now >= b.token_expires_at.at

\* the call's token request was answered with code 0
FetchedToken ==
    /\ last.op \in SendOps
    /\ AuthRequests(last.reqs) # {}
    /\ last.auth_up.kind = "json"
    /\ last.auth_up.body.code = 0

\* a cached token is reused, with no auth request, exactly while the time
\* is strictly before token_expires_at
ReusedExactlyWhileValid ==
    (last.op \in SendOps /\ last.before.access_token # "")
    => (AuthRequests(last.reqs) = {}
          <=> (/\ last.before.token_expires_at # None
               /\ last.before.now < last.before.token_expires_at.at))

\* token_expires_at = time of fetch + (declared expire - 300)
ExpiryRecorded ==
    FetchedToken
    => token_expires_at =
         [at |-> last.reqs[1].done
                   + (dict_get(last.auth_up.body, "expire", 7200) - 300)]

\* C9: when the cached token's expiry is in the past, or no token is cached,
\* the next send call makes exactly one token request to the auth endpoint,
\* and that request has completed before the message POST is issued.
C9_OneFetchBeforePost ==
    (last.op \in SendOps /\ ExpiredOrAbsent(last.before))
    => /\ Cardinality(AuthRequests(last.reqs)) = 1
       /\ last.reqs[1].to = "auth"
       /\ \A i \in MessageRequests(last.reqs) :
              i = 2 /\ last.reqs[1].done <= last.reqs[i].sent

\* a token whose expiry had passed was replaced by one fetch, after which
\* the message went out with the new token
C9_Witness ==
    /\ last.op = "send_interactive_message"
    /\ last.before.access_token = "t1"
    /\ last.before.now >= last.before.token_expires_at.at
    /\ Len(last.reqs) = 2
    /\ last.reqs[1].sent < last.reqs[1].done
    /\ last.reqs[2].token = "t2"
    /\ last.ret

\* C10 as stated: a cached token is reused without an auth request exactly
\* while the time is strictly before token_expires_at = time of fetch +
\* (declared expire - 300); consequently no message POST carries a token
\* whose recorded expiry had already passed when the send obtained it.
C10_NoPostWithExpiredToken ==
    /\ ReusedExactlyWhileValid
    /\ ExpiryRecorded
    /\ last.op \in SendOps
       => \A i \in MessageRequests(last.reqs) :
              last.reqs[i].sent < last.reqs[i].token_expires_at

\* C10 (amended): a cached token is reused without an auth request exactly
\* while the time is strictly before token_expires_at = time of fetch +
\* (declared expire - 300); consequently a reused token is never past its
\* recorded expiry when the send obtains it.  A freshly fetched token is used
\* for the POST of the same call whatever its recorded expiry: that expiry is
\* ahead of the time it was obtained only if the declared expire exceeds 300.
C10_ReuseOnlyBeforeExpiry ==
    /\ ReusedExactlyWhileValid
    /\ ExpiryRecorded
    /\ last.op \in SendOps
       => \A i \in MessageRequests(last.reqs) :
              /\ AuthRequests(last.reqs) = {}
                 => last.reqs[i].sent < last.reqs[i].token_expires_at
              /\ AuthRequests(last.reqs) # {}
                 => (last.reqs[i].sent < last.reqs[i].token_expires_at
                       <=> dict_get(last.auth_up.body, "expire", 7200) > 300)

\* a token fetched earlier is reused for a POST while its expiry is ahead
C10_Witness ==
    /\ last.op \in SendOps
    /\ last.before.access_token = "t1"
    /\ last.before.now > 0
    /\ last.reqs # <<>>
    /\ AuthRequests(last.reqs) = {}
    /\ last.reqs[1].token = "t1"
    /\ last.reqs[1].sent < last.reqs[1].token_expires_at

\* the call's token request failed: it raised (transport error, HTTP error
\* status, body not JSON) or was answered with a code other than 0
FetchFailed ==
    /\ last.op \in SendOps
    /\ AuthRequests(last.reqs) # {}
    /\ \/ last.auth_up.kind = "raises"
       \/ last.auth_up.body.code # 0

\* C11: when the token fetch fails (exception, HTTP error status or a
\* non-zero code from the auth endpoint), the send method returns False,
\* issues no message POST and makes no second token request in that call.
C11_FetchFailureFailsSend ==
    FetchFailed
    => /\ last.ret = FALSE
       /\ MessageRequests(last.reqs) = {}
       /\ Cardinality(AuthRequests(last.reqs)) = 1
       /\ access_token = last.before.access_token
       /\ token_expires_at = last.before.token_expires_at

\* an expired token could not be replaced because the auth endpoint answered
\* with a non-zero code; the send gave up after that one request
C11_Witness ==
    /\ FetchFailed
    /\ last.op = "send_text_message"
    /\ last.before.access_token = "t1"
    /\ last.auth_up.kind = "json"
    /\ last.ret = FALSE
    /\ Len(last.reqs) = 1


-----------------------------------------------------------------------------
(* Properties of the scheduled jobs and of the startup *)

\* the last step was a run of a job's handler
JobRan == last.op = "job"

\* the trigger of the job id can fire
CanFire(id) ==
    ENABLED (\/ run_send_daily_news_to_feishu(id)
             \/ run_send_crypto_news_to_feishu(id)
             \/ run_send_market_flow_with_currency(id))

\* C12: an exception raised inside a job handler's logic is caught inside
\* the handler: nothing escapes the handler, the job is registered after the
\* run as it was before, and it and every other job can fire again at once,
\* with no retry state kept.
C12_HandlerCatchesEverything ==
    JobRan
    => /\ ~last.escaped
       /\ Registered(jobs, last.id) = last.registered
       /\ last.registered # <<>>
       /\ \A id \in JobIds : Registered(jobs, id) # <<>> /\ CanFire(id)

C12_Witness ==
    /\ JobRan
    /\ last.func = "send_crypto_news_to_feishu"
    /\ last.raised
    /\ ~last.escaped
    /\ CanFire(last.id)

\* C13: no two jobs of the store share an id; add_job with replace_existing
\* on an id in use puts the new handler in the place of the earlier one and
\* leaves the other jobs alone; a trigger runs only the handler the store
\* holds for the id, which is the one registered last.
C13_OneJobPerId ==
    /\ \A id \in JobIds : Len(Registered(jobs, id)) <= 1
    /\ (last.op = "add_job" /\ last.replace_existing
        /\ Registered(last.before, last.id) # <<>>)
       => /\ Registered(jobs, last.id)
               = <<[id |-> last.id, func |-> last.func]>>
          /\ Len(jobs) = Len(last.before)
          /\ \A id \in JobIds \ {last.id} :
                Registered(jobs, id) = Registered(last.before, id)
    /\ JobRan
       => last.registered = <<[id |-> last.id, func |-> last.func]>>

C13_Witness ==
    /\ JobRan
    /\ last.id = "send_crypto_news_to_feishu"
    /\ last.func = "send_market_flow_with_currency"
    /\ Len(jobs) = Len(JobRegistrations)

-----------------------------------------------------------------------------
(* Properties of the helper methods *)

\* C14: no exception escapes fetch_news_from_source, get_current_solar_term
\* or chat, whatever the argument and the upstream outcome.
C14_NoExceptionEscapes ==
    last.op \in {"fetch_news_from_source", "get_current_solar_term", "chat"}
    => ~last.raised

\* C15: a cache operation never raises: a failed read gives None and a
\* failed write is only logged, for every cache table.
C15_CacheOpsNeverRaise ==
    last.op \in {"get_from_cache", "save_to_cache",
                 "save_almanac_explanation", "save_seasonal_food"}
    => /\ ~last.raised
       /\ (last.op = "get_from_cache" /\ ~last.db_ok) => last.ret = None

\* the last step was a run of the news job's handler
NewsJobRan == JobRan /\ last.func = "send_daily_news_to_feishu"

\* C16: within one run of the news job the steps are fetch, compose,
\* deliver, in that order: the send is made only after
\* integrate_news_with_glm4 returned error_code 0, which is called only
\* after fetch_all_news returned; when composing fails nothing is sent.
C16_FetchComposeDeliver ==
    NewsJobRan
    => /\ \A i \in 1..Len(last.steps) :
             /\ last.steps[i].call = "fetch_all_news" => i = 1
             /\ last.steps[i].call = "integrate_news_with_glm4"
                => i = 2 /\ last.steps[1].call = "fetch_all_news"
             /\ last.steps[i].call = "send_news_message"
                => /\ i = 3
                   /\ last.steps[2].call = "integrate_news_with_glm4"
                   /\ last.steps[2].ok
       /\ MessageRequests(last.reqs) # {}
          => /\ Len(last.steps) = 3
             /\ last.steps[3].call = "send_news_message"
       /\ (Len(last.steps) >= 2 /\ ~last.steps[2].ok)
          => Len(last.steps) = 2 /\ last.reqs = <<>>

C16_Witness ==
    /\ NewsJobRan
    /\ Len(last.steps) = 3
    /\ last.steps[3].call = "send_news_message"
    /\ last.steps[3].ok
    /\ MessageRequests(last.reqs) # {}

\* a run of the news job in which composing failed
C16_WitnessComposeFails ==
    /\ NewsJobRan
    /\ Len(last.steps) = 2
    /\ ~last.steps[2].ok

\* C17: init_scheduler starts the scheduler, then starts the refresh exactly
\* once on a thread of its own, and returns without waiting for it: its
\* return is enabled whatever the refresh has done, and the refresh, slow or
\* failing, takes the main thread nowhere else.
C17_RefreshOffMainThread ==
    /\ refresh.started <= 1
    /\ refresh.finished <= refresh.started
    /\ refresh.started = 1 => running /\ pc \in {"return", "returned"}
    /\ pc \in {"return", "returned"} => refresh.started = 1
    /\ pc = "return" => ENABLED init_scheduler_return

\* init_scheduler has returned while the refresh has not finished
C17_Witness ==
    /\ pc = "returned"
    /\ running
    /\ refresh.started = 1
    /\ refresh.finished = 0

\* the refresh failed to compose the advice after init_scheduler returned
C17_WitnessFailedRefresh ==
    /\ pc = "returned"
    /\ last.op = "get_cached_daily_advice"
    /\ last.who = "refresh"
    /\ ~last.ok
    /\ refresh.finished = 1

-----------------------------------------------------------------------------
(* Properties of concurrent callers *)

\* the threads that wrote the key
Writers(date) ==
    {t \in 1..Len(workers) : workers[t].key = date /\ workers[t].wrote}

\* two threads missed the cache on the same key, fetched and wrote, and both
\* have returned
BothWrote(i, j) ==
    /\ i # j
    /\ workers[i].key = workers[j].key
    /\ workers[i].pc = "done" /\ workers[j].pc = "done"
    /\ ~workers[i].hit /\ ~workers[j].hit
    /\ workers[i].wrote /\ workers[j].wrote

\* C18: when two threads query the same uncached key at once and both fetch
\* and write, then once both have returned the table holds exactly one row
\* for the key, carrying the payload one of the writers wrote, and each of
\* the two received the success envelope it fetched.
C18_ConcurrentMissesConverge ==
    \A i, j \in 1..Len(workers) :
        BothWrote(i, j)
        => /\ Cardinality(AlmanacRows(almanac_cache, workers[i].key)) = 1
           /\ \E t \in Writers(workers[i].key) :
                 AlmanacQuery_get_from_cache(almanac_cache, workers[i].key)
                     = workers[t].ret
           /\ workers[i].ret.error_code = 0
           /\ workers[j].ret.error_code = 0

\* both threads wrote, with different payloads
C18_Witness ==
    /\ Len(workers) >= 2
    /\ BothWrote(1, 2)
    /\ workers[1].ret # workers[2].ret
    /\ Cardinality(AlmanacRows(almanac_cache, workers[1].key)) = 1

\* the call assigned solar_terms_api.cache['daily_advice']
WroteDailyCache(l) ==
    l.op = "get_cached_daily_advice" /\ l.fetched = 1 /\ l.ok

\* the call read solar_terms_api.cache['daily_advice']
ReadDailyCache(l) == l.op = "get_cached_daily_advice"

\* C19: outside the persistent cache store no variable written by one
\* thread is read or written by another: a call that reads the module-level
\* daily-advice cache never follows a call of another thread that wrote it.
C19_OnlyCacheStoreShared ==
    [][(WroteDailyCache(last) /\ ReadDailyCache(last'))
       => last'.who = last.who]_vars

\* C20: a missing configuration key disables only the job that depends on
\* it: the startup completes whatever keys are set, a job whose chat id is
\* missing ends its run without a request, and every job stays registered
\* and able to fire.
C20_MissingKeyDisablesOnlyItsJob ==
    /\ pc # "aborted"
    /\ (JobRan /\ last.func = "send_daily_news_to_feishu"
        /\ env.FEISHU_CHAT_ID = "") => last.reqs = <<>> /\ ~last.raised
    /\ (JobRan /\ last.func = "send_crypto_news_to_feishu"
        /\ env.FEISHU_CHAT_ID_COIN = "") => last.reqs = <<>> /\ ~last.raised
    /\ JobRan => \A id \in JobIds : Registered(jobs, id) # <<>> /\ CanFire(id)

-----------------------------------------------------------------------------
(* Properties of the market data and the market-flow job *)

\* C21: an envelope has error_code 0 if and only if its data is populated:
\* the market-data envelope carries a populated section exactly when its
\* error_code is 0, and no section of an envelope with another error_code
\* is used as valid.
C21_ErrorCodeZeroIffPopulated ==
    last.op = "get_all_market_data"
    => /\ last.ret.error_code = 0
          <=> (last.ret.data.currency # {} \/ last.ret.data.gold # {})
       /\ last.ret.error_code # 0 => last.used = {}

-----------------------------------------------------------------------------
(* Properties of the news cards *)

\* the last step was a call of one of the two card-sending methods
CardSent == last.op \in {"send_news_message", "send_crypto_news_message"}

\* C22: send_news_message and send_crypto_news_message never raise because
\* of message formatting: when building the card raises for the given
\* news_data, the minimal error card is what is passed to
\* send_interactive_message, and the method returns a boolean.
C22_FormattingNeverRaises ==
    CardSent
    => /\ ~last.raised
       /\ last.ret \in BOOLEAN
       /\ CardBuildRaises(last.news_data)
          => /\ last.content # None
             /\ last.content.error
             /\ last.content.items = 0

\* a card-sending call whose news_data breaks the builder, and whose error
\* card reached the chat
C22_Witness ==
    /\ CardSent
    /\ CardBuildRaises(last.news_data)
    /\ last.ret
    /\ Len(last.reqs) > 0

-----------------------------------------------------------------------------
(* Properties of the explanation enrichment *)

\* C23: the LLM is asked about a (field_name, value) pair only if the
\* explanation cache holds no non-empty explanation for the pair, and a pair
\* that was explained and saved before a pass began is not asked about in
\* that pass.
C23_AskOnlyUnexplained ==
    (last.op = "explain" /\ last.asked)
    => ~last.held_now /\ ~last.held_at_start

\* the worker threads started so far
BatchWorkers == {i \in 1..Len(explainers) : explainers[i].kind = "worker"}

\* start_batch_explanation has started exactly one worker
SingleBatch == Cardinality(BatchWorkers) = 1

\* the date a thread is at work on
InHand(th) == IF th.pc = "pairs" THEN <<th.date>> ELSE <<>>

\* the dates were enqueued in ascending order; what the worker has done,
\* has in hand and has still to take is the enqueued list, in its order;
\* and the worker leaves only with all of it done
BatchInOrder(th) ==
    /\ \A i, j \in 1..Len(th.enqueued) :
          i < j => (DateLE(th.enqueued[i], th.enqueued[j])
                    /\ th.enqueued[i] # th.enqueued[j])
    /\ th.processed \o InHand(th) \o date_queue = th.enqueued
    /\ th.pc = "done" => (date_queue = <<>> /\ th.processed = th.enqueued)

\* C24: after a single start_batch_explanation call the worker takes the
\* dates in FIFO (ascending) order, processes each enqueued date exactly
\* once, goes on with the next date after a date's failure, and terminates
\* once the queue is empty.
C24_BatchWorkerDrainsQueue ==
    /\ [](SingleBatch => \A i \in BatchWorkers : BatchInOrder(explainers[i]))
    /\ SingleBatch ~> (\/ ~SingleBatch
                       \/ \A i \in BatchWorkers : explainers[i].pc = "done")

\* the single worker has left after two dates, the first of which failed
C24_Witness ==
    /\ SingleBatch
    /\ \A i \in BatchWorkers :
          /\ explainers[i].pc = "done"
          /\ Len(explainers[i].enqueued) = 2
          /\ explainers[i].processed = explainers[i].enqueued
          /\ explainers[i].enqueued[1] \in explainers[i].failed

-----------------------------------------------------------------------------
(* Properties of the crypto news *)

\* the last step was a call of get_new_crypto_news that returned
CryptoReturned == last.op = "get_new_crypto_news" /\ ~last.raised

\* the items of the fetched page with an id above n
NewerThan(reply, n) ==
    IF reply.kind = "ok"
    THEN {reply.news[i] : i \in {j \in 1..Len(reply.news) :
                                    reply.news[j].id > n}}
    ELSE {}

\* the greatest of a set of numbers and a start value
Greatest(S, n) == CHOOSE x \in S \cup {n} : \A y \in S \cup {n} : y <= x

C29_NoNewsIsSuccess ==
    (CryptoReturned /\ last.reply.kind = "ok"
        /\ NewerThan(last.reply, last.before) = {})
    => (last.ret.error_code = 0 /\ last.ret.news = <<>>)

\* the last step was a run of the crypto job's handler
CryptoJobRan == last.op = "job" /\ last.func = "send_crypto_news_to_feishu"

\* C25: over the calls of get_new_crypto_news, one after the other,
\* max_sent_id never decreases and no news id is returned by more than one
\* call, whether or not an earlier batch was delivered.
C25_NoIdReturnedTwice ==
    [][/\ max_sent_id' >= max_sent_id
       /\ CryptoJobRan' => last'.ids \cap returned_ids = {}]_vars

\* a run that returned news after an earlier run had returned others, and
\* whose own delivery failed
C25_Witness ==
    /\ CryptoJobRan
    /\ last.ids # {}
    /\ returned_ids \ last.ids # {}
    /\ Len(last.steps) = 2 /\ ~last.steps[2].ok

\* Monday to Friday, 08:30 to 17:30 inclusive
InWindow(at) == at.weekday \in 0..4 /\ at.minutes \in 510..1050

\* C26: a run of send_crypto_news_to_feishu fetches and sends only if the
\* Asia/Shanghai time is Monday to Friday between 08:30 and 17:30
\* inclusive; any other run makes no upstream fetch and no send and leaves
\* max_sent_id unchanged.
C26_OnlyInWorkingHours ==
    [][CryptoJobRan'
       => /\ (last'.steps # <<>> \/ last'.reqs # <<>>) => InWindow(last'.at)
          /\ ~InWindow(last'.at)
             => /\ last'.steps = <<>> /\ last'.reqs = <<>>
                /\ last'.ids = {}
                /\ max_sent_id' = max_sent_id]_vars

\* a run at 17:30 on a Friday that fetched and sent
C26_Witness ==
    /\ CryptoJobRan
    /\ last.at = [weekday |-> 4, minutes |-> 1050]
    /\ Len(last.steps) = 2 /\ last.steps[2].ok

\* a run at 17:31 that did nothing
C26_WitnessSkipped ==
    /\ CryptoJobRan
    /\ last.at = [weekday |-> 4, minutes |-> 1051]
    /\ last.steps = <<>>
    /\ max_sent_id > 0

-----------------------------------------------------------------------------
(* Properties of the market-flow job *)

\* the last step was a run of the market-flow job's handler
MarketJobRan ==
    last.op = "job" /\ last.func = "send_market_flow_with_currency"

\* C27: on a weekday run of send_market_flow_with_currency with a chat id
\* configured and get_market_fund_flow returning error_code 0, the job
\* sends the formatted fund-flow message to the chat; on error_code 2
\* nothing is sent.
C27_MarketFlowSent ==
    (MarketJobRan /\ last.at.weekday < 5 /\ env.FEISHU_CHAT_ID # "")
    => /\ last.at.flow = 0
          => /\ ~last.raised
             /\ \E i \in 1..Len(last.steps) :
                   last.steps[i].call = "send_stock_market_flow_message"
       /\ last.at.flow = 2 => last.reqs = <<>>

-----------------------------------------------------------------------------
(* Properties of get_current_solar_term *)

\* the cached terms of the year of date d
YearTerms(d) ==
    {SolarRows(solar_terms_cache, d[1], NoName)[i] :
        i \in 1..Len(SolarRows(solar_terms_cache, d[1], NoName))}

\* the latest term on or before d, and the earliest one after d
LatestUpTo(d) ==
    LET S == {r \in YearTerms(d) : DateLE(r.pub_date, d)}
    IN IF S = {} THEN None
       ELSE DisplayTerm(CHOOSE r \in S :
                            \A s \in S : DateLE(s.pub_date, r.pub_date))

EarliestAfter(d) ==
    LET S == {r \in YearTerms(d) : ~DateLE(r.pub_date, d)}
    IN IF S = {} THEN None
       ELSE DisplayTerm(CHOOSE r \in S :
                            \A s \in S : DateLE(r.pub_date, s.pub_date))

\* C30: for a query date d, get_current_solar_term returns as current_term
\* the latest cached term of d's year with date <= d (none if d precedes
\* every term), as next_term the earliest one with date > d (none if there
\* is none in that year), and as days_to_next the days from d to next_term,
\* strictly positive whenever next_term is present.
C30_CurrentAndNextTerm ==
    (/\ last.op = "get_current_solar_term"
     /\ ~last.raised
     /\ last.ret.error_code = 0)
    => /\ last.ret.current_term = LatestUpTo(last.ret.query_date)
       /\ last.ret.next_term = EarliestAfter(last.ret.query_date)
       /\ last.ret.next_term # None
          => /\ last.ret.days_to_next # None
             /\ last.ret.days_to_next.days > 0

-----------------------------------------------------------------------------
(* Properties of fetch_all_news *)

\* the upstream reply with which fetch_news_from_source succeeds
FetchSucceeds(reply) ==
    reply.kind = "object" /\ reply.status \in {"success", "cache"}

\* C31: fetch_all_news returns exactly one envelope per configured source,
\* each carrying its source's name; the envelope of a source whose fetch
\* succeeded has error_code 0 and the fetched items, and the envelope of a
\* source whose fetch failed or raised is a failure envelope, whatever
\* happened to the other sources.
C31_OneEnvelopePerSource ==
    last.op = "fetch_all_news"
    => /\ DOMAIN last.ret = 1..Len(news_sources)
       /\ \A i \in 1..Len(news_sources) :
             /\ last.ret[i].source = news_sources[i]
             /\ IF FetchSucceeds(last.up[i])
                THEN /\ last.ret[i].error_code = 0
                     /\ last.ret[i].data = last.up[i].items
                ELSE /\ last.ret[i].error_code = -1
                     /\ last.ret[i].data = <<>>

\* a call in which the first source's fetch raised, the second one failed
\* and the third one succeeded
C31_Witness ==
    /\ last.op = "fetch_all_news"
    /\ last.up[1].kind = "not_object"
    /\ last.up[2].kind = "request_error"
    /\ FetchSucceeds(last.up[3])
    /\ last.ret[3].error_code = 0
    /\ last.ret[1].error_code = -1

-----------------------------------------------------------------------------
(* Properties of concurrent calls of get_new_crypto_news *)

\* both callers are back from the method
BothReturned == \A c \in Callers : crypto_calls[c].at = "returned"

\* no id went to both callers
NoIdToBoth ==
    Ids(crypto_calls["job"].news) \cap Ids(crypto_calls["endpoint"].news) = {}

\* max_sent_id is not below any id of a page a caller filtered
MaxCoversSeen ==
    \A c \in Callers :
        (crypto_calls[c].reply.kind = "ok" /\ ~crypto_calls[c].raised)
        => \A i \in 1..Len(crypto_calls[c].reply.news) :
              crypto_calls[c].reply.news[i].id <= max_sent_id

\* C32: when the crypto job and the test endpoint have called
\* get_new_crypto_news concurrently, no news id was returned to both of them
\* and max_sent_id is the largest id either of them saw.
C32_NoIdToBothCallers ==
    BothReturned => (NoIdToBoth /\ MaxCoversSeen)

-----------------------------------------------------------------------------
(* Properties of get_cached_daily_advice under concurrent callers *)

\* thread t is back from get_cached_daily_advice with a value
AdviceServed(t) ==
    advice_calls[t].at = "returned" /\ advice_calls[t].ret # None

\* the value served to t is a success composed for the date t asked for
ServedForItsDate(t) ==
    /\ advice_calls[t].ret.error_code = 0
    /\ advice_calls[t].ret.for = advice_calls[t].query_date

\* C33: whenever get_cached_daily_advice(d) returns a value, the value is a
\* success envelope of a compose performed for date d, whatever the
\* interleaving of the refresh thread and the request threads and also
\* across a change of date; the cache never holds a failed compose.
C33_ServedAdviceIsForItsDate ==
    /\ \A t \in AdviceThreads : AdviceServed(t) => ServedForItsDate(t)
    /\ (daily_cache # None /\ daily_cache.data # None)
       => daily_cache.data.error_code = 0

-----------------------------------------------------------------------------
(* Properties of the shared date_queue *)

\* C34: every worker thread that start_batch_explanation starts eventually
\* terminates, also when start_batch_explanation is called again while an
\* earlier worker is still consuming date_queue: no worker stays blocked in
\* date_queue.get() after another thread took the last item.
C34_EveryWorkerTerminates ==
    \A i \in 1..MaxExplainers :
        (i \in BatchWorkers)
            ~> (i \in BatchWorkers /\ explainers[i].pc = "done")

\* a worker is inside date_queue.get() on an empty queue while every other
\* thread has left
BlockedInGet ==
    /\ date_queue = <<>>
    /\ \E i \in BatchWorkers : explainers[i].pc = "get"
    /\ \A i \in BatchWorkers : explainers[i].pc \in {"get", "done"}
    /\ Len(explainers) = MaxExplainers

-----------------------------------------------------------------------------
(* Properties of query_next_n_days *)

\* the dates the almanac cache holds
CachedDates == {r.date : r \in almanac_cache}

\* the dates a later query_next_n_days call attempts: those after MAX(date)
AttemptedLater(d) ==
    LET max_date == AlmanacQuery_get_max_date(almanac_cache)
    IN DateLE(max_date, d) /\ d # max_date

\* C35: after any number of query_next_n_days calls, whatever the upstream
\* gave for each date, every date from the first date attempted up to
\* MAX(date) of the cache is cached or is attempted again by a later call.
C35_NoPermanentGap ==
    (last.op = "query_next_n_days" /\ almanac_cache # {})
    => \A d \in Calendar :
          (/\ DateLE(last.first, d)
           /\ DateLE(d, AlmanacQuery_get_max_date(almanac_cache)))
          => (d \in CachedDates \/ AttemptedLater(d))

-----------------------------------------------------------------------------
(* Properties of query(year) after query(year, name) *)

\* the term names of a result list
ResultNames(result) == {result[i].name : i \in 1..Len(result)}

\* the term names cached for a year
CachedNames(year) == ResultNames(SolarRows(solar_terms_cache, year, NoName))

\* C36: a successful query(year) with no name returns every term of the
\* year, and a successful get_current_solar_term leaves (and so worked from)
\* every term of the year of its date, whichever query(year, name) calls
\* came before.
C36_WholeYearIsFullSet ==
    /\ (/\ last.op = "query"
        /\ last.key[2] = NoName
        /\ last.ret.error_code = 0)
       => ResultNames(last.ret.result) = TermNames
    /\ (/\ last.op = "get_current_solar_term"
        /\ ~last.raised
        /\ last.ret.error_code = 0)
       => CachedNames(last.ret.query_date[1]) = TermNames

=============================================================================
